---- MODULE Spec2Model ----
(***************************************************************************)
(* LinkedOut: the adaptive local classification engine.                    *)
(*                                                                         *)
(*   - classifyWithPatterns (src/src/utils.js): the pattern classifier      *)
(*   - processSignal, getLearningAdjustments, applyLearningToClassification *)
(*     (the learning module)                                                *)
(*   - the content script (src/src/content.js): scanning the feed, the      *)
(*     filter badges and the review panel, feedback, enabling and disabling *)
(*                                                                         *)
(* Numbers.  Confidences are rationals [num, den] (den > 0); the code's     *)
(* literals 0.4, 0.15, 0.95 ... are written in hundredths.  Reputation      *)
(* scores are JavaScript numbers: an integer or NaN.                        *)
(*                                                                         *)
(* Text.  A string content is a sequence of segments; a segment is a phrase *)
(* of the vocabulary below or a single word.  What a regular expression or  *)
(* the tokenizer does on a segment is tabulated from the source.            *)
(***************************************************************************)
EXTENDS Integers, Sequences, FiniteSets, TLC

VARIABLES
    storage,                \* chrome.storage.local: the value under key learningData
    DEFAULT_LEARNING_DATA,  \* the module-level default object of the learning module
    calls,                  \* the processSignal invocations in flight
    classified,             \* the last classifyWithPatterns call and its result
    adjusted,               \* the last applyLearningToClassification call and its result
    feed,                   \* the posts the user has reacted to as they came into view
    lastIndex,              \* the lastIndex of each RegExp object of LOCAL_PATTERNS
    promises,               \* the promise each caller got from its latest processSignal call
    tab,                    \* the LinkedIn tab: the content script's state, the document,
                            \* the messages the script has sent, and what the user did
    worker,                 \* the background service worker: what it stores about
                            \* feedback, and its profile regenerations under way
    detection               \* a DetectionStats object and the calls made on it

vars == <<storage, DEFAULT_LEARNING_DATA, calls, classified, adjusted, feed,
          lastIndex, promises, tab, worker, detection>>

-----------------------------------------------------------------------------
(* JavaScript values *)

Null == [kind |-> "null"]
Undefined == [kind |-> "undefined"]

\* a string content made of the given segments ("" is the empty sequence)
Str(segs) == [kind |-> "string", segs |-> segs]

\* a value that is not a string; segs are the segments of String(value),
\* the text a RegExp would be tested on
NonString(kind, segs) == [kind |-> kind, segs |-> segs]

\* a mutant of IsValidContent: every truthy value is classified
IsValidContent_Truthy(content) ==
    /\ content.kind \notin {"null", "undefined"}
    /\ ~(content.kind = "string" /\ Len(content.segs) = 0)

\* !content || typeof content !== 'string'
IsValidContent(content) == content.kind = "string" /\ Len(content.segs) > 0

RECURSIVE GCD(_, _)
\* the greatest common divisor of two naturals, b > 0 or a > 0
GCD(a, b) == IF b = 0 THEN a ELSE GCD(b, a % b)

\* the rational number n/d, d > 0, in lowest terms
Rat(n, d) ==
    LET g == GCD(IF n < 0 THEN -n ELSE n, d)
    IN  [num |-> n \div g, den |-> d \div g]
Hundredths(n) == Rat(n, 100)

\* the double next below the double nearest to x: what a sum or a product of
\* doubles gives when its rounding errors take it under x
RoundedDown(x) == [num |-> x.num, den |-> x.den, rounded |-> "down"]
IsRoundedDown(x) == "rounded" \in DOMAIN x

\* a and b are the same number, up to the rounding of doubles
SameValue(a, b) == a.num * b.den = b.num * a.den

RatLess(a, b) ==
    \/ a.num * b.den < b.num * a.den
    \/ SameValue(a, b) /\ IsRoundedDown(a) /\ ~IsRoundedDown(b)
RatLeq(a, b) == ~RatLess(b, a)
RatEq(a, b) == SameValue(a, b) /\ (IsRoundedDown(a) <=> IsRoundedDown(b))

RECURSIVE SetToSeq(_)
\* the elements of a set of strings or numbers in some fixed order
SetToSeq(S) == IF S = {} THEN <<>>
               ELSE LET x == CHOOSE y \in S : TRUE IN <<x>> \o SetToSeq(S \ {x})

SeqToSet(s) == {s[i] : i \in 1..Len(s)}

-----------------------------------------------------------------------------
(* Pattern Library *)

\* Object.entries(LOCAL_PATTERNS) visits the categories in this order
CategoryOrder == <<"ai_generated", "thought_leadership", "engagement_bait",
                   "self_promotion", "politics", "rage_bait", "corporate_fluff">>

Categories == SeqToSet(CategoryOrder)

\* the patterns of each category, in library order; "ai1" is the first
\* regular expression of ai_generated (utils.js line 107), and so on
LOCAL_PATTERNS ==
    [ai_generated       |-> <<"ai1", "ai2", "ai3", "ai4", "ai5", "ai6", "ai7", "ai8", "ai9">>,
     thought_leadership |-> <<"tl1", "tl2", "tl3", "tl4", "tl5", "tl6", "tl7", "tl8", "tl9">>,
     engagement_bait    |-> <<"eb1", "eb2", "eb3", "eb4", "eb5", "eb6", "eb7", "eb8", "eb9">>,
     self_promotion     |-> <<"sp1", "sp2", "sp3", "sp4", "sp5", "sp6", "sp7", "sp8", "sp9">>,
     politics           |-> <<"po1", "po2", "po3", "po4", "po5", "po6", "po7", "po8">>,
     rage_bait          |-> <<"rb1", "rb2", "rb3", "rb4", "rb5", "rb6", "rb7">>,
     corporate_fluff    |-> <<"cf1", "cf2", "cf3", "cf4", "cf5", "cf6", "cf7", "cf8", "cf9", "cf10">>]

\* the patterns each phrase of the vocabulary makes match, wherever it stands
\*   "in today's fast-paced"  /\b(in today's fast-paced|...)\b/i          ai1
\*   "let me share"           /\b(let me share|...)\b/i                   ai2
\*   "deep dive"              /\b(game.?changer|level.?up|deep dive|..)/  ai4
\*   "key takeaways"          /\b(...|key takeaways?)\b/i                 ai8
\*   "leverage our brand"     /\b(synergy|leverage|...)\b/i               ai6
\*                            /\b(leverage our|...)\b/i                   cf6
\*   "excited to announce"    /\b(excited to announce|...|proud to)\b/i   tl9
\*                            /\b(excited to announce|...)\b/i            cf1
\*   "hot take"               /\b(unpopular opinion|hot take|...)\b/i     tl1
\*   "my journey"             /\b(my journey|my story|...)\b/i            tl7
\*   "strategic partnership"  /\b(strategic partnership|...)\b/i          cf9
\*   "snowflake"              /\b(libs|maga|woke|snowflake)\b/i           po7
\*                            /\b(snowflakes?|triggered|offended)\b/i     rb7
PhrasePatterns ==
    "in today's fast-paced" :> {"ai1"} @@
    "let me share"          :> {"ai2"} @@
    "deep dive"             :> {"ai4"} @@
    "key takeaways"         :> {"ai8"} @@
    "leverage our brand"    :> {"ai6", "cf6"} @@
    "excited to announce"   :> {"tl9", "cf1"} @@
    "hot take"              :> {"tl1"} @@
    "my journey"            :> {"tl7"} @@
    "strategic partnership" :> {"cf9"} @@
    "snowflake"             :> {"po7", "rb7"}

\* the patterns a phrase makes match only when the content ends with it
\*   "agree?"   /\b(agree\??|thoughts\??|am I (right|wrong)\??)\s*$/i     eb1
EndPhrasePatterns ==
    "agree?" :> {"eb1"}

\* the identifiers of all patterns of the library
PatternIds == UNION {SeqToSet(LOCAL_PATTERNS[c]) : c \in Categories}

\* every RegExp object as the module creates it: lastIndex is 0
FreshLastIndex == [p \in PatternIds |-> 0]

\* pattern.test(content)
PatternTest(pattern, content) ==
    \/ \E i \in 1..Len(content.segs) :
          /\ content.segs[i] \in DOMAIN PhrasePatterns
          /\ pattern \in PhrasePatterns[content.segs[i]]
    \/ /\ Len(content.segs) > 0
       /\ content.segs[Len(content.segs)] \in DOMAIN EndPhrasePatterns
       /\ pattern \in EndPhrasePatterns[content.segs[Len(content.segs)]]

\* the segments of content at which pattern matches
MatchPositions(pattern, content) ==
    {i \in 1..Len(content.segs) :
        \/ /\ content.segs[i] \in DOMAIN PhrasePatterns
           /\ pattern \in PhrasePatterns[content.segs[i]]
        \/ /\ i = Len(content.segs)
           /\ content.segs[i] \in DOMAIN EndPhrasePatterns
           /\ pattern \in EndPhrasePatterns[content.segs[i]]}

\* a mutant of Flags: the patterns are global, /.../gi
Flags_Global(pattern) == {"g", "i"}

\* the flags of a pattern of the library: each literal is /.../i
Flags(pattern) == {"i"}

\* pattern.test(content) on the RegExp object whose lastIndex is from.
\* Without the g flag the search starts at the beginning of content and
\* lastIndex stays; with it the search starts behind lastIndex, a match moves
\* lastIndex to its position and a failure sets it to 0.
RegExpTest(pattern, content, from) ==
    IF "g" \notin Flags(pattern)
    THEN [matched |-> PatternTest(pattern, content), lastIndex |-> from]
    ELSE LET later == {i \in MatchPositions(pattern, content) : i > from}
         IN  IF later = {} THEN [matched |-> FALSE, lastIndex |-> 0]
             ELSE [matched |-> TRUE,
                   lastIndex |-> CHOOSE i \in later : \A j \in later : i <= j]

-----------------------------------------------------------------------------
(* Local Classifier *)

\* a string argument
JSString(s) == [kind |-> "string", s |-> s]

\* an array argument
Array(items) == [kind |-> "array", items |-> items]

\* the sensitivity table, confidences in hundredths
\* a mutant of config: high has the values of medium
config_HighAsMedium ==
    [low    |-> [threshold |-> 2, baseConfidence |-> 40, perMatch |-> 15],
     medium |-> [threshold |-> 1, baseConfidence |-> 50, perMatch |-> 15],
     high   |-> [threshold |-> 1, baseConfidence |-> 50, perMatch |-> 15]]

config ==
    [low    |-> [threshold |-> 2, baseConfidence |-> 40, perMatch |-> 15],
     medium |-> [threshold |-> 1, baseConfidence |-> 50, perMatch |-> 15],
     high   |-> [threshold |-> 1, baseConfidence |-> 60, perMatch |-> 20]]

\* property names that every object literal inherits from Object.prototype
ObjectPrototypeKeys == {"constructor", "toString", "valueOf", "hasOwnProperty"}

\* what a lookup of an inherited name yields: a function object, which is
\* truthy and has none of the fields the code then reads
InheritedFunction == [kind |-> "function"]

\* sensitivity = 'medium' (the parameter default replaces undefined)
SensitivityParam(sensitivity) ==
    IF sensitivity = Undefined THEN JSString("medium") ELSE sensitivity

\* config[sensitivity] || config.medium
ConfigFor(sensitivity) ==
    LET s == SensitivityParam(sensitivity) IN
    IF s.kind # "string" THEN config.medium
    ELSE IF s.s \in DOMAIN config THEN config[s.s]
    ELSE IF s.s \in ObjectPrototypeKeys THEN InheritedFunction
    ELSE config.medium

\* a mutant of ReachesThreshold: more matches than the threshold are needed
ReachesThreshold_Above(cfg, matchCount) ==
    /\ cfg # InheritedFunction
    /\ matchCount > cfg.threshold

\* matchCount >= threshold (false when threshold is undefined)
ReachesThreshold(cfg, matchCount) ==
    /\ cfg # InheritedFunction
    /\ matchCount >= cfg.threshold

\* a mutant of CategorySkipped: a category without an entry is not skipped
CategorySkipped_OnlyDisabled(enabledCategories, categoryId) ==
    /\ enabledCategories.kind = "object"
    /\ categoryId \in DOMAIN enabledCategories.map
    /\ ~enabledCategories.map[categoryId].enabled

\* a mutant of CategorySkipped: without an object every category is skipped
CategorySkipped_WithoutObject(enabledCategories, categoryId) ==
    \/ enabledCategories.kind # "object"
    \/ ~ /\ categoryId \in DOMAIN enabledCategories.map
          /\ enabledCategories.map[categoryId].enabled

\* enabledCategories && !enabledCategories[categoryId]?.enabled
CategorySkipped(enabledCategories, categoryId) ==
    /\ enabledCategories.kind = "object"
    /\ ~ /\ categoryId \in DOMAIN enabledCategories.map
         /\ enabledCategories.map[categoryId].enabled

\* the patterns of a category that match, in library order
MatchedPatterns(categoryId, content) ==
    SelectSeq(LOCAL_PATTERNS[categoryId], LAMBDA p : PatternTest(p, content))

Min(a, b) == IF a <= b THEN a ELSE b
Max(a, b) == IF a >= b THEN a ELSE b

\* a mutant of MatchConfidence: no cap
MatchConfidence_Uncapped(cfg, matchCount) ==
    cfg.baseConfidence + matchCount * cfg.perMatch

\* Math.min(baseConfidence + matchCount * perMatch, 0.95)
MatchConfidence(cfg, matchCount) ==
    Min(cfg.baseConfidence + matchCount * cfg.perMatch, 95)

RECURSIVE TestPatterns(_, _, _)
\* the loop over the patterns of a category: the patterns that match, in
\* library order, and the lastIndex of every RegExp object after the loop
TestPatterns(patterns, content, li) ==
    IF patterns = <<>> THEN [matched |-> <<>>, lastIndex |-> li]
    ELSE
        LET pattern == Head(patterns)
            test == RegExpTest(pattern, content, li[pattern])
            rest == TestPatterns(Tail(patterns), content,
                                 [li EXCEPT ![pattern] = test.lastIndex])
        IN  [matched |-> IF test.matched THEN <<pattern>> \o rest.matched
                                         ELSE rest.matched,
             lastIndex |-> rest.lastIndex]

RECURSIVE CollectResults(_, _, _, _, _)
\* the loop over Object.entries(LOCAL_PATTERNS), from the i-th category on,
\* with the RegExp objects at li
CollectResults(i, content, enabledCategories, cfg, li) ==
    IF i > Len(CategoryOrder) THEN [results |-> <<>>, lastIndex |-> li]
    ELSE
        LET categoryId == CategoryOrder[i] IN
        IF CategorySkipped(enabledCategories, categoryId)
        THEN CollectResults(i + 1, content, enabledCategories, cfg, li)
        ELSE
            LET tested == TestPatterns(LOCAL_PATTERNS[categoryId], content, li)
                matchCount == Len(tested.matched)
                rest == CollectResults(i + 1, content, enabledCategories, cfg,
                                       tested.lastIndex)
            IN  [results |->
                    IF ReachesThreshold(cfg, matchCount)
                    THEN <<[category |-> categoryId,
                            matchCount |-> matchCount,
                            confidence |-> MatchConfidence(cfg, matchCount),
                            matchedPatterns |->
                                SubSeq(tested.matched, 1, Min(3, matchCount))]>>
                         \o rest.results
                    ELSE rest.results,
                 lastIndex |-> rest.lastIndex]

\* a mutant of SortsBefore: equal match counts sort before, too
SortsBefore_OrEqual(a, b) == a.matchCount >= b.matchCount

\* the comparator (a, b) => b.matchCount - a.matchCount || b.confidence - a.confidence
\* is negative: a sorts before b
SortsBefore(a, b) ==
    \/ a.matchCount > b.matchCount
    \/ a.matchCount = b.matchCount /\ a.confidence > b.confidence

RECURSIVE InsertResult(_, _)
\* x placed into a sorted sequence, behind every element it does not sort before
InsertResult(x, sorted) ==
    IF sorted = <<>> THEN <<x>>
    ELSE IF SortsBefore(x, Head(sorted)) THEN <<x>> \o sorted
    ELSE <<Head(sorted)>> \o InsertResult(x, Tail(sorted))

RECURSIVE SortResults(_)
\* results.sort(...): Array.prototype.sort is stable
SortResults(results) ==
    IF results = <<>> THEN <<>>
    ELSE InsertResult(results[Len(results)],
                      SortResults(SubSeq(results, 1, Len(results) - 1)))

\* a call of classifyWithPatterns with the RegExp objects at li: what it
\* returns and where it leaves the RegExp objects
Classification(content, enabledCategories, sensitivity, li) ==
    IF ~IsValidContent(content) THEN [result |-> Null, lastIndex |-> li]
    ELSE
        LET collected == CollectResults(1, content, enabledCategories,
                                        ConfigFor(sensitivity), li)
            results == collected.results
        IN  [result |->
                IF Len(results) = 0 THEN Null
                ELSE
                    LET best == SortResults(results)[1]
                    IN  [kind |-> "object",
                         filter |-> TRUE,
                         category |-> best.category,
                         confidence |-> Hundredths(best.confidence),
                         reason |-> "Matched " \o ToString(best.matchCount)
                                               \o " pattern(s)"],
             lastIndex |-> collected.lastIndex]

\* what classifyWithPatterns returns in the current state of the module
classifyWithPatterns(content, enabledCategories, sensitivity) ==
    Classification(content, enabledCategories, sensitivity, lastIndex).result

-----------------------------------------------------------------------------
(* Keyword Extractor *)

\* common words ignored when extracting keywords
STOP_WORDS ==
    {"a", "an", "the", "and", "or", "but", "in", "on", "at", "to", "for", "of", "with",
     "by", "from", "as", "is", "was", "are", "were", "been", "be", "have", "has", "had",
     "do", "does", "did", "will", "would", "could", "should", "may", "might", "must",
     "shall", "can", "need", "dare", "ought", "used", "i", "me", "my", "myself", "we",
     "our", "ours", "ourselves", "you", "your", "yours", "yourself", "yourselves", "he",
     "him", "his", "himself", "she", "her", "hers", "herself", "it", "its", "itself",
     "they", "them", "their", "theirs", "themselves", "what", "which", "who", "whom",
     "this", "that", "these", "those", "am", "being", "having", "doing", "if", "because",
     "until", "while", "about", "against", "between", "into", "through", "during",
     "before", "after", "above", "below", "up", "down", "out", "off", "over", "under",
     "again", "further", "then", "once", "here", "there", "when", "where", "why", "how",
     "all", "each", "few", "more", "most", "other", "some", "such", "no", "nor", "not",
     "only", "own", "same", "so", "than", "too", "very", "s", "t", "just", "don", "now",
     "d", "ll", "m", "o", "re", "ve", "y", "ain", "aren", "couldn", "didn", "doesn",
     "hadn", "hasn", "haven", "isn", "ma", "mightn", "mustn", "needn", "shan", "shouldn",
     "wasn", "weren", "won", "wouldn", "also", "get", "got", "getting", "going", "go",
     "goes", "gone", "come", "comes", "coming", "came", "make", "makes", "making",
     "made", "take", "takes", "taking", "took", "taken", "see", "sees", "seeing", "saw",
     "seen", "know", "knows", "knowing", "knew", "known", "think", "thinks", "thinking",
     "thought", "want", "wants", "wanting", "wanted", "use", "uses", "using", "find",
     "finds", "finding", "found", "give", "gives", "giving", "gave", "given", "tell",
     "tells", "telling", "told", "work", "works", "working", "worked", "call", "calls",
     "calling", "called", "try", "tries", "trying", "tried", "ask", "asks", "asking",
     "asked", "needs", "needing", "needed", "feel", "feels", "feeling", "felt", "become",
     "becomes", "becoming", "became", "leave", "leaves", "leaving", "left", "put",
     "puts", "putting", "mean", "means", "meaning", "meant", "keep", "keeps", "keeping",
     "kept", "let", "lets", "letting", "begin", "begins", "beginning", "began", "begun",
     "seem", "seems", "seeming", "seemed", "help", "helps", "helping", "helped", "show",
     "shows", "showing", "showed", "shown", "hear", "hears", "hearing", "heard", "play",
     "plays", "playing", "played", "run", "runs", "running", "ran", "move", "moves",
     "moving", "moved", "live", "lives", "living", "lived", "believe", "believes",
     "believing", "believed", "bring", "brings", "bringing", "brought", "happen",
     "happens", "happening", "happened", "write", "writes", "writing", "wrote",
     "written", "provide", "provides", "providing", "provided", "sit", "sits", "sitting",
     "sat", "stand", "stands", "standing", "stood", "lose", "loses", "losing", "lost",
     "pay", "pays", "paying", "paid", "meet", "meets", "meeting", "met", "include",
     "includes", "including", "included", "continue", "continues", "continuing",
     "continued", "set", "sets", "setting", "learn", "learns", "learning", "learned",
     "change", "changes", "changing", "changed", "lead", "leads", "leading", "led",
     "understand", "understands", "understanding", "understood", "watch", "watches",
     "watching", "watched", "follow", "follows", "following", "followed", "stop",
     "stops", "stopping", "stopped", "create", "creates", "creating", "created", "speak",
     "speaks", "speaking", "spoke", "spoken", "read", "reads", "reading", "allow",
     "allows", "allowing", "allowed", "add", "adds", "adding", "added", "spend",
     "spends", "spending", "spent", "grow", "grows", "growing", "grew", "grown", "open",
     "opens", "opening", "opened", "walk", "walks", "walking", "walked", "win", "wins",
     "winning", "offer", "offers", "offering", "offered", "remember", "remembers",
     "remembering", "remembered", "love", "loves", "loving", "loved", "consider",
     "considers", "considering", "considered", "appear", "appears", "appearing",
     "appeared", "buy", "buys", "buying", "bought", "wait", "waits", "waiting", "waited",
     "serve", "serves", "serving", "served", "die", "dies", "dying", "died", "send",
     "sends", "sending", "sent", "expect", "expects", "expecting", "expected", "build",
     "builds", "building", "built", "stay", "stays", "staying", "stayed", "fall",
     "falls", "falling", "fell", "fallen", "cut", "cuts", "cutting", "reach", "reaches",
     "reaching", "reached", "kill", "kills", "killing", "killed", "remain", "remains",
     "remaining", "remained", "linkedin", "post", "posts", "share", "shared", "sharing",
     "comment", "comments", "like", "likes", "liked", "liking", "people", "person",
     "thing", "things", "way", "ways", "day", "days", "year", "years", "time", "times",
     "today", "week", "month"}

\* the n-th of the generated content words: "word1001", "word1002", ...
\* (eight characters each, none contained in another)
Word(n) == "word" \o ToString(1000 + n)

\* s.toLowerCase(), for the strings of the vocabulary that have upper case
LowerCaseOf ==
    "Kubernetes"   :> "kubernetes" @@
    "Jane Doe"     :> "jane doe" @@
    "JANE DOE"     :> "jane doe" @@
    "Unknown"      :> "unknown" @@
    "UNKNOWN"      :> "unknown" @@
    "Constructor"  :> "constructor"

ToLowerCase(s) == IF s \in DOMAIN LowerCaseOf THEN LowerCaseOf[s] ELSE s

\* s.trim(), for the strings of the vocabulary with surrounding white space
TrimOf ==
    "  JANE DOE "  :> "JANE DOE"

Trim(s) == IF s \in DOMAIN TrimOf THEN TrimOf[s] ELSE s

\* .replace(/[^\w\s'-]/g, ' ').split(/\s+/) on the lower-cased segments that
\* are not a single token
SegmentTokens ==
    "in today's fast-paced" :> <<"in", "today's", "fast-paced">> @@
    "let me share"          :> <<"let", "me", "share">> @@
    "deep dive"             :> <<"deep", "dive">> @@
    "key takeaways"         :> <<"key", "takeaways">> @@
    "leverage our brand"    :> <<"leverage", "our", "brand">> @@
    "excited to announce"   :> <<"excited", "to", "announce">> @@
    "hot take"              :> <<"hot", "take">> @@
    "agree?"                :> <<"agree">> @@
    "my journey"            :> <<"my", "journey">> @@
    "strategic partnership" :> <<"strategic", "partnership">> @@
    "had a nice lunch"      :> <<"had", "a", "nice", "lunch">> @@
    "kubernetes!"           :> <<"kubernetes">>

\* the tokens of one segment of a content
TokensOf(segment) ==
    LET lower == ToLowerCase(segment)
    IN  IF lower \in DOMAIN SegmentTokens THEN SegmentTokens[lower] ELSE <<lower>>

RECURSIVE Tokenize(_)
\* the tokens of a sequence of segments
Tokenize(segs) ==
    IF segs = <<>> THEN <<>> ELSE TokensOf(Head(segs)) \o Tokenize(Tail(segs))

\* the tokens of the vocabulary that /^\d+$/ matches
NumberTokens == {"2024", "10000"}

\* the tokens of the vocabulary that /^['-]+$/ matches
PunctuationTokens == {"----", "'--'"}

\* the filter criteria of extractKeywords
IsKeyword(word) ==
    /\ ~(Len(word) < 4)
    /\ ~(Len(word) > 25)
    /\ word \notin STOP_WORDS
    /\ word \notin NumberTokens
    /\ word \notin PunctuationTokens

RECURSIVE FirstSeen(_)
\* the distinct words of a sequence, each at its first occurrence: the
\* insertion order of the keys of freq
FirstSeen(words) ==
    IF words = <<>> THEN <<>>
    ELSE LET front == FirstSeen(SubSeq(words, 1, Len(words) - 1))
             last == words[Len(words)]
         IN  IF last \in SeqToSet(front) THEN front ELSE Append(front, last)

\* freq[word]
Frequency(words, word) == Cardinality({i \in 1..Len(words) : words[i] = word})

RECURSIVE InsertByFrequency(_, _, _)
\* word placed into a sorted sequence behind every word that is not less frequent
InsertByFrequency(word, sorted, words) ==
    IF sorted = <<>> THEN <<word>>
    ELSE IF Frequency(words, word) > Frequency(words, Head(sorted))
         THEN <<word>> \o sorted
         ELSE <<Head(sorted)>> \o InsertByFrequency(word, Tail(sorted), words)

RECURSIVE SortByFrequency(_, _)
\* .sort((a, b) => b[1] - a[1]), a stable sort
SortByFrequency(entries, words) ==
    IF entries = <<>> THEN <<>>
    ELSE InsertByFrequency(entries[Len(entries)],
                           SortByFrequency(SubSeq(entries, 1, Len(entries) - 1), words),
                           words)

\* s.slice(0, n)
Slice(s, n) == SubSeq(s, 1, Min(n, Len(s)))

\* a mutant of SliceLast: the whole list
SliceLast_All(s, n) == s

\* a mutant of SliceLast: the first n entries, s.slice(0, n)
SliceLast_First(s, n) == SubSeq(s, 1, IF n <= Len(s) THEN n ELSE Len(s))

\* s.slice(-n)
SliceLast(s, n) == SubSeq(s, Max(1, Len(s) - n + 1), Len(s))

extractKeywords(content) ==
    IF ~IsValidContent(content) THEN <<>>
    ELSE LET words == SelectSeq(Tokenize(content.segs), IsKeyword)
         IN  Slice(SortByFrequency(FirstSeen(words), words), 20)

-----------------------------------------------------------------------------
(* Background service worker (feedback recording) and DetectionStats
   (src/src/dom-healing.js): their state *)

PROFILE_REGEN_THRESHOLD == 25

\* the feedback items that are recorded
MaxRecorded == 30

\* the profile regenerations that can be under way at a time
MaxRegenerating == 2

\* the detection attempts that are recorded
MaxAttempts == 8

\* the service worker after installation: chrome.storage.local holds neither
\* an apiKey nor a feedbackCountSinceRegen (read as 0), no feedback was
\* recorded, no regeneratePreferenceProfile call was started or is under way
InstalledWorker ==
    [apiKey |-> FALSE,
     feedbackCountSinceRegen |-> 0,
     recorded |-> 0,
     started |-> 0,
     regenerations |-> <<>>]

\* new DetectionStats(), and the calls made on it since
NewDetectionStats ==
    [stats |-> [attempts |-> 0,
                successes |-> 0,
                failures |-> 0,
                lastFailureTime |-> 0,
                consecutiveFailures |-> 0],
     calls |-> <<>>]

-----------------------------------------------------------------------------
(* Content script (src/src/content.js): the tab it runs in *)

\* the posts LinkedIn can render in the feed are 0..MaxPagePosts
MaxPagePosts == 1

\* the classifyPosts requests that can await their response at a time
MaxInFlight == 2

\* the approve and reject clicks the user makes
MaxClicks == 2

PagePosts == 0..MaxPagePosts

MIN_POST_LENGTH == 30

\* the delay of the batch timeout, in milliseconds
BATCH_DELAY_MS == 3000

\* the time that passes in one step of the clock, in milliseconds
ClockStepMs == 1000

\* the length of the text of post p: post 0 has no text, the others are
\* long enough to be classified
PostLength(p) == 60 * p

\* the user has not clicked approve or reject
NoClick == [postId |-> 0, feedback |-> "none"]

\* const state = {...}: the script's state object once init has run with the
\* extension enabled, the empty feed, the open message channel to the
\* background with the classifyPosts requests that await their response
\* (inFlight) and the recordFeedback messages that went out (sent), and a
\* user who has not clicked yet.  A classification is
\* kept by its filter, confirmed and rejected properties, each "true",
\* "false" or "undefined"; batchTimer is "null", "armed" (the timeout is
\* pending) or "fired"; a badge and a review card are kept by the buttons
\* they show ("pending": both, "confirmed": reject, "rejected": approve).
\* A request in flight is kept with its posts and with whether a rescan has
\* happened since it went out (stale).  The clock holds the time left until
\* the pending timeout is due and the time since new posts were last
\* discovered, both counted up to BATCH_DELAY_MS; the history holds, for the
\* time since the last rescan, how many requests each post was placed in,
\* how many results were stored for it, and the posts whose classification
\* came with the response to a stale request.
LoadedTab ==
    [state |-> [processedPosts |-> {},
                pendingPosts |-> <<>>,
                batchTimer |-> "null",
                classifications |-> [p \in {} |-> 0],
                panelOpen |-> FALSE,
                enabled |-> TRUE,
                contextValid |-> TRUE,
                scanning |-> FALSE],
     document |-> [posts |-> {},
                   filtered |-> {},
                   badges |-> [p \in {} |-> 0],
                   cards |-> [p \in {} |-> 0]],
     channel |-> "open",
     inFlight |-> <<>>,
     sent |-> <<>>,
     user |-> [clicks |-> 0, latest |-> NoClick],
     clock |-> [batchTimeout |-> 0, sinceDiscovery |-> BATCH_DELAY_MS],
     history |-> [requests |-> [p \in {} |-> 0],
                  applied |-> [p \in {} |-> 0],
                  fromStale |-> {}]]

-----------------------------------------------------------------------------
(* Learning Store *)

\* a learningData object
LearningData(authorReputation, keep, filter, patternStats) ==
    [kind |-> "object",
     authorReputation |-> authorReputation,
     learnedKeywords |-> [keep |-> keep, filter |-> filter],
     patternStats |-> patternStats]

\* an object without own properties
EmptyObject == [k \in {} |-> 0]

\* DEFAULT_LEARNING_DATA as the module defines it
EmptyLearningData == LearningData(EmptyObject, <<>>, <<>>, EmptyObject)

\* no call of the operation has been made yet
NoCall == [op |-> "none"]

\* a caller that has no processSignal invocation in flight
Idle == [pc |-> "idle"]

\* the callers that may have a processSignal invocation in flight
Callers == {"review panel"}

\* the promise a processSignal call returns: pending until the call ends,
\* then fulfilled or rejected; reads and writes count the calls of getStorage
\* and of setStorage that the invocation made
NoPromise == [state |-> "none"]
Pending == [state |-> "pending"]
Fulfilled(reads, writes) == [state |-> "fulfilled", reads |-> reads, writes |-> writes]
Rejected(by, reads, writes) ==
    [state |-> "rejected", by |-> by, reads |-> reads, writes |-> writes]

\* no post has come into view; the user will like each one that does
NoFeed == [shown |-> 0, reaction |-> "liked"]

Init ==
    /\ storage = Undefined
    /\ DEFAULT_LEARNING_DATA = EmptyLearningData
    /\ calls = [c \in Callers |-> Idle]
    /\ classified = NoCall
    /\ adjusted = NoCall
    /\ feed = NoFeed
    /\ lastIndex = FreshLastIndex
    /\ promises = [c \in Callers |-> NoPromise]
    /\ tab = LoadedTab
    /\ worker = InstalledWorker
    /\ detection = NewDetectionStats

-----------------------------------------------------------------------------
(* Feedback Processor *)

\* a JavaScript number that is an integer, and the number NaN
JSNum(n) == [nan |-> FALSE, n |-> n]
NaN == [nan |-> TRUE, n |-> 0]

SIGNAL_WEIGHTS ==
    [filterApproved |-> [author |-> -1,  analyzeForKeep |-> FALSE, analyzeForFilter |-> TRUE],
     filterRejected |-> [author |-> 2,   analyzeForKeep |-> TRUE,  analyzeForFilter |-> FALSE],
     liked          |-> [author |-> 3,   analyzeForKeep |-> TRUE,  analyzeForFilter |-> FALSE],
     commented      |-> [author |-> 3,   analyzeForKeep |-> TRUE,  analyzeForFilter |-> FALSE],
     shared         |-> [author |-> 3,   analyzeForKeep |-> TRUE,  analyzeForFilter |-> FALSE],
     hidden         |-> [author |-> -10, analyzeForKeep |-> FALSE, analyzeForFilter |-> FALSE],
     unfollowed     |-> [author |-> -10, analyzeForKeep |-> FALSE, analyzeForFilter |-> FALSE],
     notInterested  |-> [author |-> -2,  analyzeForKeep |-> FALSE, analyzeForFilter |-> TRUE]]

\* SIGNAL_WEIGHTS[signal]: the entry of a recognized signal; for a name that
\* the object inherits, a function, which is truthy and whose author,
\* analyzeForKeep and analyzeForFilter are undefined; undefined otherwise
WeightsFor(signal) ==
    IF signal \in DOMAIN SIGNAL_WEIGHTS THEN SIGNAL_WEIGHTS[signal]
    ELSE IF signal \in ObjectPrototypeKeys
         THEN [author |-> 0, analyzeForKeep |-> FALSE, analyzeForFilter |-> FALSE]
         ELSE Undefined

\* the keyword lists keep at most this many entries
MaxKeywords == 200

\* Math.max(-100, Math.min(100, n))
ClampReputation(n) == Max(-100, Min(100, n))

\* a mutant of NormalizeAuthor: the name as it was given
NormalizeAuthor_Verbatim(author) == author.s

\* author.trim().toLowerCase()
NormalizeAuthor(author) == ToLowerCase(Trim(author.s))

\* the score stored by
\*   authorReputation[key] = (authorReputation[key] || 0) + delta, then clamped.
\* An own score that is 0 or NaN reads as 0.  Without an own score, a key
\* that names an inherited property reads as a function: function + delta is
\* a string, and Math.min(100, string) is NaN.
UpdatedReputation(authorReputation, key, delta) ==
    IF key \in DOMAIN authorReputation
    THEN LET own == authorReputation[key]
         IN  JSNum(ClampReputation((IF own.nan THEN 0 ELSE own.n) + delta))
    ELSE IF key \in ObjectPrototypeKeys THEN NaN
    ELSE JSNum(ClampReputation(0 + delta))

\* object[key] = value
SetProperty(object, key, value) == (key :> value) @@ object

\* list.includes(kw)
Includes(list, kw) == \E i \in 1..Len(list) : list[i] = kw

\* a mutant of RemoveFirst: nothing is spliced out
RemoveFirst_Never(list, kw) == list

\* idx = list.indexOf(kw); if (idx !== -1) list.splice(idx, 1)
RemoveFirst(list, kw) ==
    IF ~Includes(list, kw) THEN list
    ELSE LET idx == CHOOSE i \in 1..Len(list) :
                        /\ list[i] = kw
                        /\ \A j \in 1..(i - 1) : list[j] # kw
         IN  SubSeq(list, 1, idx - 1) \o SubSeq(list, idx + 1, Len(list))

\* a mutant of PushUnlessIncluded: a keyword that is in the list moves to its
\* end
PushUnlessIncluded_ToEnd(list, kw) == Append(RemoveFirst(list, kw), kw)

\* if (!list.includes(kw)) list.push(kw)
PushUnlessIncluded(list, kw) ==
    IF Includes(list, kw) THEN list ELSE Append(list, kw)

RECURSIVE MoveKeywords(_, _, _)
\* the loop over keywords.slice(0, 5): each keyword is pushed onto the list
\* `into` unless it is there, and its first occurrence is spliced out of the
\* list `outOf`
MoveKeywords(kws, into, outOf) ==
    IF kws = <<>> THEN [into |-> into, outOf |-> outOf]
    ELSE LET kw == Head(kws)
         IN  MoveKeywords(Tail(kws),
                          PushUnlessIncluded(into, kw),
                          RemoveFirst(outOf, kw))

\* learnedKeywords after the "Extract and store keywords" block
UpdatedKeywords(learnedKeywords, weights, content) ==
    IF ~IsValidContent(content) THEN learnedKeywords
    ELSE
        LET keywords == extractKeywords(content)
            afterKeep ==
                IF weights.analyzeForKeep /\ Len(keywords) > 0
                THEN LET m == MoveKeywords(Slice(keywords, 5),
                                           learnedKeywords.keep, learnedKeywords.filter)
                     IN  [keep |-> SliceLast(m.into, MaxKeywords), filter |-> m.outOf]
                ELSE learnedKeywords
        IN  IF weights.analyzeForFilter /\ Len(keywords) > 0
            THEN LET m == MoveKeywords(Slice(keywords, 5), afterKeep.filter, afterKeep.keep)
                 IN  [keep |-> m.outOf, filter |-> SliceLast(m.into, MaxKeywords)]
            ELSE afterKeep

RECURSIVE CountPatterns(_, _, _)
\* the loop over matchedPatterns: a counter pair is created for a new pattern
\* and hits (isHit) or misses is incremented
CountPatterns(patterns, patternStats, isHit) ==
    IF patterns = <<>> THEN patternStats
    ELSE LET pattern == Head(patterns)
             stats == IF pattern \in DOMAIN patternStats
                      THEN patternStats[pattern]
                      ELSE [hits |-> 0, misses |-> 0]
             counted == IF isHit THEN [stats EXCEPT !.hits = @ + 1]
                                 ELSE [stats EXCEPT !.misses = @ + 1]
         IN  CountPatterns(Tail(patterns), SetProperty(patternStats, pattern, counted), isHit)

\* a mutant of UpdatedPatternStats: every signal but filterApproved counts
\* as a miss
UpdatedPatternStats_MissByDefault(patternStats, signal, matchedPatterns) ==
    IF /\ matchedPatterns.kind = "array"
       /\ Len(matchedPatterns.items) > 0
    THEN CountPatterns(matchedPatterns.items, patternStats, signal = "filterApproved")
    ELSE patternStats

\* patternStats after the "Update pattern statistics" block
UpdatedPatternStats(patternStats, signal, matchedPatterns) ==
    IF /\ matchedPatterns.kind = "array"
       /\ Len(matchedPatterns.items) > 0
       /\ signal \in {"filterApproved", "filterRejected"}
    THEN CountPatterns(matchedPatterns.items, patternStats, signal = "filterApproved")
    ELSE patternStats

\* weights.author && author && author !== 'Unknown'
UpdatesAuthor(weights, author) ==
    /\ weights.author # 0
    /\ author.kind = "string"
    /\ author.s # ""
    /\ author.s # "Unknown"

\* content is truthy, its keywords are not empty and the signal analyzes them
UpdatesKeywords(weights, content) ==
    /\ IsValidContent(content)
    /\ weights.analyzeForKeep \/ weights.analyzeForFilter
    /\ Len(extractKeywords(content)) > 0

\* matchedPatterns is a non-empty array and the signal is a hit or a miss
UpdatesPatterns(signal, matchedPatterns) ==
    /\ matchedPatterns.kind = "array"
    /\ Len(matchedPatterns.items) > 0
    /\ signal \in {"filterApproved", "filterRejected"}

\* a property of learningData[field] cannot be read: learningData is null, or
\* the field is undefined
Lacks(learningData, field) ==
    \/ learningData = Null
    \/ learningData[field] = Undefined

\* processSignal throws a TypeError: one of its three blocks reads a property
\* of a part of learningData that is not there
ThrowsTypeError(signal, weights, author, content, matchedPatterns, learningData) ==
    \/ UpdatesAuthor(weights, author) /\ Lacks(learningData, "authorReputation")
    \/ UpdatesKeywords(weights, content) /\ Lacks(learningData, "learnedKeywords")
    \/ UpdatesPatterns(signal, matchedPatterns) /\ Lacks(learningData, "patternStats")

\* the learningData that processSignal passes to setStorage, for a signal with
\* weights and the learningData it read; a part that no block touches stays
\* as it was read, and so does a learningData that is null
UpdatedLearningData(signal, weights, author, content, matchedPatterns, learningData) ==
    IF learningData = Null THEN Null
    ELSE
        [kind |-> "object",
         authorReputation |->
            IF UpdatesAuthor(weights, author)
            THEN SetProperty(learningData.authorReputation, NormalizeAuthor(author),
                             UpdatedReputation(learningData.authorReputation,
                                               NormalizeAuthor(author), weights.author))
            ELSE learningData.authorReputation,
         learnedKeywords |-> UpdatedKeywords(learningData.learnedKeywords, weights, content),
         patternStats |->
            UpdatedPatternStats(learningData.patternStats, signal, matchedPatterns)]

-----------------------------------------------------------------------------
(* processSignal: the invocation *)

\* processSignal(signal, {author, content, matchedPatterns}, getStorage,
\* setStorage), from the call to the call of setStorage.  getStorage resolves
\* with the stored value; when nothing is stored, learningData is a shallow
\* copy of DEFAULT_LEARNING_DATA, whose authorReputation, learnedKeywords and
\* patternStats are the module's own objects, so that what the call changes
\* in them is changed in DEFAULT_LEARNING_DATA.  An unknown signal returns
\* at once.  A TypeError thrown by one of the three blocks rejects the
\* call's promise before setStorage is called; what the call changed in the
\* object it read is lost.
ProcessSignal(c, signal, author, content, matchedPatterns) ==
    /\ calls[c].pc = "idle"
    /\ LET fromDefault == storage = Undefined
           learningData == IF fromDefault THEN DEFAULT_LEARNING_DATA ELSE storage
           weights == WeightsFor(signal)
       IN  IF weights = Undefined
           THEN /\ promises' = [promises EXCEPT ![c] = Fulfilled(1, 0)]
                /\ UNCHANGED <<storage, DEFAULT_LEARNING_DATA, calls>>
           ELSE IF ThrowsTypeError(signal, weights, author, content, matchedPatterns,
                                   learningData)
           THEN /\ promises' = [promises EXCEPT ![c] = Rejected("processSignal", 1, 0)]
                /\ UNCHANGED <<storage, DEFAULT_LEARNING_DATA, calls>>
           ELSE LET updated == UpdatedLearningData(signal, weights, author, content,
                                                   matchedPatterns, learningData)
                IN  /\ calls' = [calls EXCEPT ![c] =
                                    [pc |-> "setStorage",
                                     signal |-> signal,
                                     author |-> author,
                                     content |-> content,
                                     matchedPatterns |-> matchedPatterns,
                                     read |-> learningData,
                                     learningData |-> updated]]
                    /\ DEFAULT_LEARNING_DATA' =
                          IF fromDefault THEN updated ELSE DEFAULT_LEARNING_DATA
                    /\ promises' = [promises EXCEPT ![c] = Pending]
                    /\ UNCHANGED storage
    /\ UNCHANGED <<classified, adjusted, lastIndex, tab, worker, detection>>

\* await setStorage({ learningData }): the value is stored and the call returns
SetStorage(c) ==
    /\ calls[c].pc = "setStorage"
    /\ storage' = calls[c].learningData
    /\ calls' = [calls EXCEPT ![c] = Idle]
    /\ promises' = [promises EXCEPT ![c] = Fulfilled(1, 1)]
    /\ UNCHANGED <<DEFAULT_LEARNING_DATA, classified, adjusted, feed, lastIndex, tab, worker, detection>>

\* the signal names callers pass: the recognized ones, a name that is not
\* recognized, and a name that every object inherits
SignalNames == DOMAIN SIGNAL_WEIGHTS \cup {"dismissed", "constructor"}

\* a post without text, and a short one
ShortContents == {Str(<<>>), Str(<<"Kubernetes", "the", "2024">>)}

-----------------------------------------------------------------------------
(* Feedback of one author's posts *)

ReputationAuthors ==
    {Undefined, JSString("Unknown"), JSString("Jane Doe"), JSString("  JANE DOE ")}

SignalOnAuthor ==
    \E c \in DOMAIN calls, signal \in SignalNames, author \in ReputationAuthors,
       content \in ShortContents :
        /\ ProcessSignal(c, signal, author, content, Undefined)
        /\ UNCHANGED feed

SignalStored == \E c \in DOMAIN calls : SetStorage(c)

SpecReputation == Init /\ [][SignalOnAuthor \/ SignalStored]_vars

-----------------------------------------------------------------------------
(* Feedback on posts of an author whose name every object inherits *)

InheritedNameAuthors == {Undefined, JSString("Constructor")}

SignalOnInheritedName ==
    \E c \in DOMAIN calls, signal \in SignalNames, author \in InheritedNameAuthors,
       content \in ShortContents :
        /\ ProcessSignal(c, signal, author, content, Undefined)
        /\ UNCHANGED feed

SpecInheritedName == Init /\ [][SignalOnInheritedName \/ SignalStored]_vars

-----------------------------------------------------------------------------
(* Feedback on a long feed *)

\* the number of posts that come into view
FeedLength == 42

\* the n-th post of the feed: five words that no other post has
FeedPost(n) == Str([i \in 1..5 |-> Word(5 * (n - 1) + i)])

\* a post the user comes back to: it shares two words with the first post of
\* the feed and has six keywords, "kubernetes" the most frequent
RecurringPost ==
    Str(<<Word(1), Word(2), "Kubernetes", "kubernetes!", "rust", "the", "2024",
          "hustle", "today", "grind">>)

\* the user either likes every new post or marks every new post notInterested
InitKeywords ==
    /\ storage = Undefined
    /\ DEFAULT_LEARNING_DATA = EmptyLearningData
    /\ calls = [c \in Callers |-> Idle]
    /\ classified = NoCall
    /\ adjusted = NoCall
    /\ feed \in {[shown |-> 0, reaction |-> r] : r \in {"liked", "notInterested"}}
    /\ lastIndex = FreshLastIndex
    /\ promises = [c \in Callers |-> NoPromise]
    /\ tab = LoadedTab
    /\ worker = InstalledWorker
    /\ detection = NewDetectionStats

\* the next post comes into view and the user reacts to it
SignalOnNewPost ==
    \E c \in DOMAIN calls :
        /\ feed.shown < FeedLength
        /\ ProcessSignal(c, feed.reaction, Undefined, FeedPost(feed.shown + 1), Undefined)
        /\ feed' = [feed EXCEPT !.shown = @ + 1]

\* the user gives some feedback on the recurring post
SignalOnRecurringPost ==
    \E c \in DOMAIN calls, signal \in SignalNames :
        /\ ProcessSignal(c, signal, Undefined, RecurringPost, Undefined)
        /\ UNCHANGED feed

SpecKeywords ==
    InitKeywords /\ [][SignalOnNewPost \/ SignalOnRecurringPost \/ SignalStored]_vars

-----------------------------------------------------------------------------
(* Adjustment Engine *)

RatAdd(a, b) == Rat(a.num * b.den + b.num * a.den, a.den * b.den)
RatMul(a, b) == Rat(a.num * b.num, a.den * b.den)

\* the learned words that occur inside a longer lower-cased segment
SubstringsOf ==
    "kubernetes!"         :> {"kubernetes"} @@
    "trust"               :> {"rust"} @@
    "excited to announce" :> {"excited", "announce"} @@
    "deep dive"           :> {"deep", "dive"}

\* contentLower.includes(kw)
ContentIncludes(content, kw) ==
    \E i \in 1..Len(content.segs) :
        LET lower == ToLowerCase(content.segs[i])
        IN  \/ kw = lower
            \/ lower \in DOMAIN SubstringsOf /\ kw \in SubstringsOf[lower]

\* how many entries of a learned list occur in the content
KeywordMatches(list, content) ==
    Cardinality({i \in 1..Len(list) : ContentIncludes(content, list[i])})

\* learningData.authorReputation?.[key] || 0, as the number the comparisons
\* see: a missing, zero or NaN score compares as 0, and so does the function
\* read for an inherited name (every comparison with it is false)
ReputationOf(learningData, key) ==
    IF learningData.authorReputation \in {Undefined, Null} THEN 0
    ELSE IF key \in DOMAIN learningData.authorReputation
    THEN IF learningData.authorReputation[key].nan THEN 0
         ELSE learningData.authorReputation[key].n
    ELSE 0

\* a mutant of AuthorAdjustment: the limits of the bands are exclusive, as
\* in the table of the README
AuthorAdjustment_Strict(r) ==
    IF r < -10 THEN 20
    ELSE IF r < -5 THEN 10
    ELSE IF r > 10 THEN -30
    ELSE IF r > 5 THEN -15
    ELSE 0

\* the author adjustment, in hundredths, of reputation r
AuthorAdjustment(r) ==
    IF r <= -10 THEN 20
    ELSE IF r <= -5 THEN 10
    ELSE IF r >= 10 THEN -30
    ELSE IF r >= 5 THEN -15
    ELSE 0

\* a mutant of Dominated: the override starts above 20
Dominated_Above20(r) == IF r > 20 THEN "keep" ELSE "null"

\* adjustments.dominated for reputation r
Dominated(r) == IF r >= 20 THEN "keep" ELSE "null"

\* the weight 0.5 + hits / (hits + misses)
PatternWeight(stats) ==
    RatAdd(Rat(1, 2), Rat(stats.hits, stats.hits + stats.misses))

\* a mutant of WeightedPatterns: every matched pattern with statistics gets
\* a weight
WeightedPatterns_Any(matchedPatterns, learningData) ==
    {p \in SeqToSet(matchedPatterns) :
        /\ learningData.patternStats \notin {Undefined, Null}
        /\ p \in DOMAIN learningData.patternStats
        /\ learningData.patternStats[p].hits + learningData.patternStats[p].misses >= 1}

\* the patterns of matchedPatterns that get a weight: those with statistics of
\* at least 3 observations
WeightedPatterns(matchedPatterns, learningData) ==
    {p \in SeqToSet(matchedPatterns) :
        /\ learningData.patternStats \notin {Undefined, Null}
        /\ p \in DOMAIN learningData.patternStats
        /\ learningData.patternStats[p].hits + learningData.patternStats[p].misses >= 3}

\* a mutant of KeywordAdjustment: the net count is not capped
KeywordAdjustment_Uncapped(keepMatches, filterMatches) ==
    IF keepMatches > filterMatches THEN -10 * (keepMatches - filterMatches)
    ELSE IF filterMatches > keepMatches THEN 10 * (filterMatches - keepMatches)
    ELSE 0

\* the keyword adjustment, in hundredths, for the counts of learned keep and
\* filter words found in the content
KeywordAdjustment(keepMatches, filterMatches) ==
    IF keepMatches > filterMatches
    THEN -10 * Min(keepMatches - filterMatches, 3)
    ELSE IF filterMatches > keepMatches
         THEN 10 * Min(filterMatches - keepMatches, 3)
         ELSE 0

\* adjustments, in hundredths, without learning data
NoAdjustments ==
    [authorAdjustment |-> 0, keywordAdjustment |-> 0,
     patternWeights |-> EmptyObject, dominated |-> "null"]

getLearningAdjustments(author, content, matchedPatterns, learningData) ==
    IF learningData \in {Undefined, Null} THEN NoAdjustments
    ELSE
        LET hasAuthor == author.kind = "string" /\ author.s # "" /\ author.s # "Unknown"
            reputation == IF hasAuthor
                          THEN ReputationOf(learningData, NormalizeAuthor(author))
                          ELSE 0
            hasKeywords == /\ IsValidContent(content)
                           /\ learningData.learnedKeywords \notin {Undefined, Null}
            keepMatches == IF hasKeywords
                           THEN KeywordMatches(learningData.learnedKeywords.keep, content)
                           ELSE 0
            filterMatches == IF hasKeywords
                             THEN KeywordMatches(learningData.learnedKeywords.filter, content)
                             ELSE 0
        IN  [authorAdjustment |-> AuthorAdjustment(reputation),
             dominated |-> Dominated(reputation),
             keywordAdjustment |-> KeywordAdjustment(keepMatches, filterMatches),
             patternWeights |->
                 IF matchedPatterns.kind # "array" THEN EmptyObject
                 ELSE [p \in WeightedPatterns(matchedPatterns.items, learningData) |->
                          PatternWeight(learningData.patternStats[p])]]

RECURSIVE RatSum(_, _)
\* the sum of the weights of the patterns in set P
RatSum(weights, P) ==
    IF P = {} THEN Rat(0, 1)
    ELSE LET p == CHOOSE q \in P : TRUE
         IN  RatAdd(weights[p], RatSum(weights, P \ {p}))

\* a mutant of ClampConfidence: no clamp
ClampConfidence_None(x) == x

\* Math.max(0, Math.min(1, x))
ClampConfidence(x) ==
    IF RatLess(x, Rat(0, 1)) THEN Rat(0, 1)
    ELSE IF RatLess(Rat(1, 1), x) THEN Rat(1, 1)
    ELSE x

\* avgWeight, 1 when no pattern has a weight
AvgWeight(adjustments) ==
    LET P == DOMAIN adjustments.patternWeights
    IN  IF P = {} THEN Rat(1, 1)
        ELSE RatMul(RatSum(adjustments.patternWeights, P), Rat(1, Cardinality(P)))

\* The sums and the product of adjustedConfidence are made in double
\* precision. For the operands listed here (confidence, author adjustment
\* and keyword adjustment in hundredths, then avgWeight) the exact result is
\* 0.40 and the double is 0.39999999999999997 or 0.3999999999999999, which
\* is less than the double 0.4: 0.7 + -0.3 is 0.39999999999999997. For all
\* other operands among confidences {0, 0.4, 0.5, 0.65, 0.7, 0.8, 0.95, 1},
\* the adjustments of the bands, keyword adjustments of up to three words
\* and weights 1/2, 4/7, 9/14, 9/10, 6/5 and 3/2 the double compares with
\* 0.4 as the exact result does.
RoundsBelow ==
    {<<50, 10, -20, Rat(1, 1)>>, <<50, 20, -30, Rat(1, 1)>>,
     <<70, -30, 0, Rat(1, 1)>>, <<70, 0, -30, Rat(1, 1)>>,
     <<100, -30, -30, Rat(1, 1)>>,
     <<50, 20, 10, Rat(1, 2)>>, <<70, 0, 10, Rat(1, 2)>>,
     <<70, 10, 0, Rat(1, 2)>>, <<70, 20, -10, Rat(1, 2)>>,
     <<95, -15, 0, Rat(1, 2)>>, <<100, -30, 10, Rat(1, 2)>>,
     <<40, 10, 20, Rat(4, 7)>>, <<50, 0, 20, Rat(4, 7)>>,
     <<50, 10, 10, Rat(4, 7)>>, <<50, 20, 0, Rat(4, 7)>>,
     <<65, -15, 20, Rat(4, 7)>>, <<70, -30, 30, Rat(4, 7)>>,
     <<70, 0, 0, Rat(4, 7)>>, <<70, 10, -10, Rat(4, 7)>>,
     <<70, 20, -20, Rat(4, 7)>>, <<80, -30, 20, Rat(4, 7)>>,
     <<80, 10, -20, Rat(4, 7)>>, <<80, 20, -30, Rat(4, 7)>>,
     <<95, -15, -10, Rat(4, 7)>>, <<100, -30, 0, Rat(4, 7)>>,
     <<100, 0, -30, Rat(4, 7)>>}

\* adjustedConfidence: the sum of the confidence and the two adjustments,
\* multiplied by the average weight when there are weights, then clamped
AdjustedConfidence(confidence, adjustments) ==
    LET summed == RatAdd(RatAdd(confidence, Hundredths(adjustments.authorAdjustment)),
                         Hundredths(adjustments.keywordAdjustment))
        weighted == IF DOMAIN adjustments.patternWeights # {}
                    THEN RatMul(summed, AvgWeight(adjustments))
                    ELSE summed
        roundsBelow == \E operands \in RoundsBelow :
                          /\ confidence = Hundredths(operands[1])
                          /\ adjustments.authorAdjustment = operands[2]
                          /\ adjustments.keywordAdjustment = operands[3]
                          /\ AvgWeight(adjustments) = operands[4]
    IN  IF roundsBelow THEN RoundedDown(ClampConfidence(weighted))
        ELSE ClampConfidence(weighted)

\* a mutant of applyLearningToClassification: a result that an override
\* turns to filter = false loses its category and its confidence
applyLearningToClassification_Blanked(result, author, content, learningData) ==
    IF result = Null \/ ~result.filter THEN result
    ELSE
        LET adjustments == getLearningAdjustments(author, content,
                                                  result.matchedPatterns, learningData)
            adjustedConfidence == AdjustedConfidence(result.confidence, adjustments)
        IN  IF adjustments.dominated = "keep"
            THEN [result EXCEPT !.filter = FALSE,
                                !.category = "null",
                                !.confidence = Rat(0, 1),
                                !.reason = "Author has strong positive reputation",
                                !.learningApplied = TRUE]
            ELSE IF RatLess(adjustedConfidence, Hundredths(40))
            THEN [result EXCEPT !.filter = FALSE,
                                !.category = "null",
                                !.confidence = Rat(0, 1),
                                !.reason = "Confidence reduced by learning",
                                !.learningApplied = TRUE]
            ELSE [result EXCEPT !.confidence = adjustedConfidence,
                                !.learningApplied = TRUE]

applyLearningToClassification(result, author, content, learningData) ==
    IF result = Null \/ ~result.filter THEN result
    ELSE
        LET adjustments == getLearningAdjustments(author, content,
                                                  result.matchedPatterns, learningData)
            adjustedConfidence == AdjustedConfidence(result.confidence, adjustments)
        IN  IF adjustments.dominated = "keep"
            THEN [result EXCEPT !.filter = FALSE,
                                !.reason = "Author has strong positive reputation",
                                !.learningApplied = TRUE]
            ELSE IF RatLess(adjustedConfidence, Hundredths(40))
            THEN [result EXCEPT !.filter = FALSE,
                                !.confidence = adjustedConfidence,
                                !.reason = "Confidence reduced by learning",
                                !.learningApplied = TRUE]
            ELSE [result EXCEPT !.confidence = adjustedConfidence,
                                !.learningApplied = TRUE]

-----------------------------------------------------------------------------
(* Adjustment: inputs and the call *)

\* a classification result as a caller passes it; matchedPatterns may be absent
BaseResult(filter, category, confidence, reason, matchedPatterns) ==
    [kind |-> "object",
     filter |-> filter,
     category |-> category,
     confidence |-> confidence,
     reason |-> reason,
     matchedPatterns |-> matchedPatterns,
     learningApplied |-> FALSE]

\* base confidences, in hundredths
BaseConfidences == {0, 40, 50, 65, 70, 80, 95, 100}

AdjustResults ==
    {Null,
     BaseResult(FALSE, "null", Hundredths(0), "No patterns matched", Undefined)}
    \cup {BaseResult(TRUE, "ai_generated", Hundredths(n), "Matched 1 pattern(s)", mp) :
            n \in BaseConfidences,
            mp \in {Undefined, Array(<<"ai1">>), Array(<<"ai1", "tl9", "ai1">>)}}

AdjustAuthors ==
    {Undefined, JSString("Unknown"), JSString("Jane Doe"), JSString("  JANE DOE "),
     JSString("Constructor")}

AdjustContents ==
    {Str(<<>>),
     Str(<<"Kubernetes", "trust">>),
     Str(<<"excited to announce", "kubernetes!", "hustle", "grind", "deep dive">>)}

\* reputation scores around the band limits and at the ends of the range
BandScores == {-100, -11, -10, -9, -6, -5, -4, 0, 4, 5, 9, 10, 19, 20, 21, 100}

AdjustReputations ==
    {EmptyObject}
    \cup {"jane doe" :> JSNum(r) : r \in BandScores}
    \cup {"unknown" :> JSNum(25), "constructor" :> NaN, "constructor" :> JSNum(30)}

\* pairs of learned lists, keep and filter
AdjustKeywords ==
    {[keep |-> <<>>, filter |-> <<>>],
     [keep |-> <<"kubernetes">>, filter |-> <<>>],
     [keep |-> <<"kubernetes", "rust", "hustle", "grind", "dive">>, filter |-> <<>>],
     [keep |-> <<>>, filter |-> <<"kubernetes", "rust", "hustle", "grind", "excited">>],
     [keep |-> <<"rust">>, filter |-> <<"hustle", "grind">>]}

Stats(hits, misses) == [hits |-> hits, misses |-> misses]

AdjustPatternStats ==
    {EmptyObject,
     "ai1" :> Stats(3, 0),
     "ai1" :> Stats(0, 3),
     "ai1" :> Stats(1, 1),
     "ai1" :> Stats(2, 3) @@ "tl9" :> Stats(5, 0),
     "ai1" :> Stats(1, 6) @@ "tl9" :> Stats(0, 4)}

AdjustLearningData ==
    {Undefined}
    \cup {LearningData(r, k.keep, k.filter, p) :
            r \in AdjustReputations, k \in AdjustKeywords, p \in AdjustPatternStats}

\* a call of applyLearningToClassification that has not run yet
AdjustCall(result, author, content, learningData) ==
    [op |-> "applyLearningToClassification",
     pc |-> "called",
     base |-> result,
     author |-> author,
     content |-> content,
     learningData |-> learningData,
     result |-> Undefined]

InitAdjust ==
    /\ storage = Undefined
    /\ DEFAULT_LEARNING_DATA = EmptyLearningData
    /\ calls = [c \in Callers |-> Idle]
    /\ classified = NoCall
    /\ adjusted \in {AdjustCall(result, author, content, learningData) :
                       result \in AdjustResults, author \in AdjustAuthors,
                       content \in AdjustContents, learningData \in AdjustLearningData}
    /\ feed = NoFeed
    /\ lastIndex = FreshLastIndex
    /\ promises = [c \in Callers |-> NoPromise]
    /\ tab = LoadedTab
    /\ worker = InstalledWorker
    /\ detection = NewDetectionStats

\* the call runs and returns
ApplyLearningToClassification ==
    /\ adjusted.op = "applyLearningToClassification"
    /\ adjusted.pc = "called"
    /\ adjusted' = [adjusted EXCEPT
                      !.pc = "returned",
                      !.result = applyLearningToClassification(adjusted.base, adjusted.author,
                                                               adjusted.content,
                                                               adjusted.learningData)]
    /\ UNCHANGED <<storage, DEFAULT_LEARNING_DATA, calls, classified, feed,
                   lastIndex, promises, tab, worker, detection>>

SpecAdjust == InitAdjust /\ [][ApplyLearningToClassification]_vars

-----------------------------------------------------------------------------
(* Classification: inputs and the call *)

\* the longest content, in segments, that is classified
MaxSegments == 4

\* the phrases and words classified contents are made of
ClassifyVocabulary ==
    <<"in today's fast-paced", "let me share", "deep dive", "key takeaways",
      "leverage our brand", "excited to announce", "hot take", "agree?",
      "my journey", "strategic partnership", "snowflake", "had a nice lunch">>

\* the segments of vocabulary v at the positions I, in the order of v
Pick(v, I) ==
    LET idx == SelectSeq([i \in 1..Len(v) |-> i], LAMBDA i : i \in I)
    IN  [k \in 1..Len(idx) |-> v[idx[k]]]

\* values a caller may pass as content, valid or not
ClassifyContents ==
    {Null, Undefined,
     NonString("number", <<"123">>),
     NonString("object", <<"[object Object]">>),
     NonString("array", <<"in today's fast-paced", "let me share">>)}
    \cup {Str(Pick(ClassifyVocabulary, I)) :
            I \in {J \in SUBSET (1..Len(ClassifyVocabulary)) : Cardinality(J) <= MaxSegments}}

\* an enabledCategories object
CategoryMap(map) == [kind |-> "object", map |-> map]

Labels ==
    [ai_generated |-> "AI Generated", thought_leadership |-> "Thought Leadership",
     engagement_bait |-> "Engagement Bait", self_promotion |-> "Self Promotion",
     politics |-> "Politics", rage_bait |-> "Rage Bait",
     corporate_fluff |-> "Corporate Fluff"]

\* every library category enabled
ALL_ENABLED ==
    CategoryMap([c \in Categories |-> [enabled |-> TRUE, label |-> Labels[c]]])

\* values a caller may pass as enabledCategories
EnabledCategorySets ==
    {Null, Undefined,
     CategoryMap(EmptyObject),
     ALL_ENABLED,
     CategoryMap([c \in Categories |->
                    [enabled |-> c # "ai_generated", label |-> Labels[c]]]),
     CategoryMap([c \in {"politics", "corporate_fluff"} |->
                    [enabled |-> TRUE, label |-> Labels[c]]]),
     CategoryMap([c \in Categories |-> [enabled |-> FALSE, label |-> Labels[c]]])}

\* values a caller may pass as sensitivity
Sensitivities ==
    {Undefined, JSString("low"), JSString("medium"), JSString("high"),
     JSString("unknown"), JSString("constructor")}

\* a call of classifyWithPatterns that has not run yet
ClassifyCall(content, enabledCategories, sensitivity) ==
    [op |-> "classifyWithPatterns",
     pc |-> "called",
     content |-> content,
     enabledCategories |-> enabledCategories,
     sensitivity |-> sensitivity,
     result |-> Undefined]

InitClassify ==
    /\ storage = Undefined
    /\ DEFAULT_LEARNING_DATA = EmptyLearningData
    /\ calls = [c \in Callers |-> Idle]
    /\ classified \in {ClassifyCall(content, enabledCategories, sensitivity) :
                         content \in ClassifyContents,
                         enabledCategories \in EnabledCategorySets,
                         sensitivity \in Sensitivities}
    /\ adjusted = NoCall
    /\ feed = NoFeed
    /\ lastIndex = FreshLastIndex
    /\ promises = [c \in Callers |-> NoPromise]
    /\ tab = LoadedTab
    /\ worker = InstalledWorker
    /\ detection = NewDetectionStats

\* the call runs and returns
ClassifyWithPatterns ==
    /\ classified.op = "classifyWithPatterns"
    /\ classified.pc = "called"
    /\ LET call == Classification(classified.content, classified.enabledCategories,
                                  classified.sensitivity, lastIndex)
       IN  /\ classified' = [classified EXCEPT !.pc = "returned",
                                                !.result = call.result]
           /\ lastIndex' = call.lastIndex
    /\ UNCHANGED <<storage, DEFAULT_LEARNING_DATA, calls, adjusted, feed, promises, tab, worker, detection>>

SpecClassify == InitClassify /\ [][ClassifyWithPatterns]_vars

-----------------------------------------------------------------------------
(* Properties of the Local Classifier *)

\* a classifyWithPatterns call has returned
ClassifyReturned ==
    /\ classified.op = "classifyWithPatterns"
    /\ classified.pc = "returned"

\* the call was made with one of the three sensitivity levels
NamedSensitivity ==
    classified.sensitivity \in {JSString("low"), JSString("medium"), JSString("high")}

\* the documented threshold, base confidence and bonus per match of a level
LevelThreshold(level) == IF level = "low" THEN 2 ELSE 1
LevelBase(level) == CASE level = "low" -> 40 [] level = "medium" -> 50 [] level = "high" -> 60
LevelPerMatch(level) == IF level = "high" THEN 20 ELSE 15

\* how many patterns of category c the classified content matches
MatchCountOf(c) ==
    Cardinality({p \in SeqToSet(LOCAL_PATTERNS[c]) : PatternTest(p, classified.content)})

\* category c takes part in the call: its entry says enabled, or no
\* enabledCategories object was passed at all
TakesPart(c) ==
    IF classified.enabledCategories.kind = "object"
    THEN /\ c \in DOMAIN classified.enabledCategories.map
         /\ classified.enabledCategories.map[c].enabled
    ELSE TRUE

\* the position of category c in the library
LibraryIndex(c) == CHOOSE i \in 1..Len(CategoryOrder) : CategoryOrder[i] = c

\* C6: every non-null result has confidence min(base + perMatch * n, 0.95)
\* for the match count n of the returned category and the (base, perMatch) of
\* the level, so that base <= confidence <= 0.95
C6_ConfidenceFormula ==
    (ClassifyReturned /\ NamedSensitivity /\ classified.result # Null) =>
        LET level == classified.sensitivity.s
            n == MatchCountOf(classified.result.category)
            expected == Min(LevelBase(level) + LevelPerMatch(level) * n, 95)
        IN  /\ RatEq(classified.result.confidence, Hundredths(expected))
            /\ RatLeq(Hundredths(LevelBase(level)), classified.result.confidence)
            /\ RatLeq(classified.result.confidence, Hundredths(95))

\* a low-sensitivity match with four patterns, where 0.40 + 4 * 0.15 is capped
C6_Witness ==
    /\ ClassifyReturned
    /\ classified.sensitivity = JSString("low")
    /\ classified.result # Null
    /\ MatchCountOf(classified.result.category) = 4
    /\ RatEq(classified.result.confidence, Hundredths(95))

\* C7: if every category taking part matches at most threshold - 1 patterns
\* the result is null; if some category taking part matches exactly threshold
\* patterns the result is non-null with filter = true
C7_Threshold ==
    (ClassifyReturned /\ NamedSensitivity /\ IsValidContent(classified.content)) =>
        LET t == LevelThreshold(classified.sensitivity.s) IN
        /\ (\A c \in Categories : TakesPart(c) => MatchCountOf(c) <= t - 1)
              => classified.result = Null
        /\ (\E c \in Categories : TakesPart(c) /\ MatchCountOf(c) = t)
              => (classified.result # Null /\ classified.result.filter)

\* at low sensitivity a category matches exactly two patterns, none more
C7_Witness ==
    /\ ClassifyReturned
    /\ classified.sensitivity = JSString("low")
    /\ IsValidContent(classified.content)
    /\ \E c \in Categories : TakesPart(c) /\ MatchCountOf(c) = 2
    /\ \A c \in Categories : MatchCountOf(c) <= 2
    /\ classified.result # Null
    /\ classified.result.filter

\* the categories that qualify in the classified call
Qualifying ==
    {c \in Categories :
        /\ TakesPart(c)
        /\ MatchCountOf(c) >= LevelThreshold(classified.sensitivity.s)}

NoCategoriesPassed == classified.enabledCategories \in {Null, Undefined}

\* C9 as stated: with enabledCategories absent or null every category is
\* disabled and the call returns null for every content
C9_AbsentDisablesAll ==
    (ClassifyReturned /\ NoCategoriesPassed) => classified.result = Null

\* C9 amended: with an enabledCategories object that enables no category the
\* call returns null for every content
C9_NoneEnabledReturnsNull ==
    (/\ ClassifyReturned
     /\ classified.enabledCategories.kind = "object"
     /\ \A c \in Categories : ~TakesPart(c))
        => classified.result = Null

\* a content that matches patterns, classified with the empty object
C9_Witness ==
    /\ ClassifyReturned
    /\ classified.enabledCategories = CategoryMap(EmptyObject)
    /\ IsValidContent(classified.content)
    /\ \E c \in Categories : MatchCountOf(c) >= 2
    /\ classified.result = Null

\* C10: with enabledCategories null or undefined the result equals the result
\* obtained with every library category explicitly enabled
C10_AbsentEnablesAll ==
    (ClassifyReturned /\ NoCategoriesPassed) =>
        classified.result =
            classifyWithPatterns(classified.content, ALL_ENABLED, classified.sensitivity)

\* a match returned for a call with enabledCategories null
C10_Witness ==
    /\ ClassifyReturned
    /\ classified.enabledCategories = Null
    /\ classified.result # Null
    /\ classified.result.filter

-----------------------------------------------------------------------------
(* Properties of the Learning Store *)

\* something is stored under learningData
Stored == storage # Undefined

\* no processSignal invocation is in flight
AllIdle == \A c \in DOMAIN calls : calls[c].pc = "idle"

\* C1: every score in the stored authorReputation is an integer within
\* [-100, 100]
C1_ReputationInRange ==
    Stored =>
        \A key \in DOMAIN storage.authorReputation :
            /\ ~storage.authorReputation[key].nan
            /\ storage.authorReputation[key].n >= -100
            /\ storage.authorReputation[key].n <= 100

\* C2: no word is both in the stored keep list and in the stored filter list
C2_KeepFilterDisjoint ==
    Stored =>
        SeqToSet(storage.learnedKeywords.keep)
            \cap SeqToSet(storage.learnedKeywords.filter) = {}

\* words 1 and 3 were learned together from the first post; feedback on the
\* recurring post has since moved word 1, alone, to the other list
C2_Witness ==
    /\ Stored
    /\ AllIdle
    /\ \/ /\ Includes(storage.learnedKeywords.keep, Word(3))
          /\ Includes(storage.learnedKeywords.filter, Word(1))
          /\ Includes(storage.learnedKeywords.filter, "kubernetes")
       \/ /\ Includes(storage.learnedKeywords.filter, Word(3))
          /\ Includes(storage.learnedKeywords.keep, Word(1))
          /\ Includes(storage.learnedKeywords.keep, "kubernetes")

\* list has no entry twice
NoDuplicates(list) == Cardinality(SeqToSet(list)) = Len(list)

\* C3: the stored keep list and the stored filter list have at most 200
\* entries each and no entry twice
C3_ListsBounded ==
    Stored =>
        /\ Len(storage.learnedKeywords.keep) <= 200
        /\ Len(storage.learnedKeywords.filter) <= 200
        /\ NoDuplicates(storage.learnedKeywords.keep)
        /\ NoDuplicates(storage.learnedKeywords.filter)

\* more than 200 words have been inserted into one list: it holds 200 and
\* the words of the first post are gone from both
C3_Witness ==
    /\ Stored
    /\ AllIdle
    /\ feed.shown > 40
    /\ \/ Len(storage.learnedKeywords.keep) = 200
       \/ Len(storage.learnedKeywords.filter) = 200
    /\ ~Includes(storage.learnedKeywords.keep, Word(3))
    /\ ~Includes(storage.learnedKeywords.filter, Word(3))

-----------------------------------------------------------------------------
(* Properties of the Adjustment Engine *)

\* an applyLearningToClassification call has returned
AdjustReturned ==
    /\ adjusted.op = "applyLearningToClassification"
    /\ adjusted.pc = "returned"

\* the call was made for a base result with filter = true, with learning data
\* in which the normalized form of its author has a score of at least 20
TrustedAuthorCall ==
    /\ AdjustReturned
    /\ adjusted.base # Null
    /\ adjusted.base.filter
    /\ adjusted.learningData # Undefined
    /\ adjusted.author.kind = "string"
    /\ LET key == ToLowerCase(Trim(adjusted.author.s))
       IN  /\ key \in DOMAIN adjusted.learningData.authorReputation
           /\ ~adjusted.learningData.authorReputation[key].nan
           /\ adjusted.learningData.authorReputation[key].n >= 20

\* the result is the trust override
NotFilteredAsTrusted ==
    /\ adjusted.result.filter = FALSE
    /\ adjusted.result.reason = "Author has strong positive reputation"

C5_ConfidenceInUnitInterval ==
    (AdjustReturned /\ adjusted.result # Null) =>
        /\ RatLeq(Rat(0, 1), adjusted.result.confidence)
        /\ RatLeq(adjusted.result.confidence, Rat(1, 1))

\* a base confidence of 0.95 raised by the author and the keyword adjustment
\* and weighted by 1.5: the result is 1
C5_Witness ==
    /\ AdjustReturned
    /\ adjusted.base # Null
    /\ adjusted.base.filter
    /\ adjusted.base.confidence = Hundredths(95)
    /\ adjusted.learningData # Undefined
    /\ getLearningAdjustments(adjusted.author, adjusted.content,
                              adjusted.base.matchedPatterns,
                              adjusted.learningData).authorAdjustment = 20
    /\ adjusted.result.filter
    /\ adjusted.result.confidence = Rat(1, 1)

-----------------------------------------------------------------------------
(* classifyPostsLocally *)

\* the most posts in one classifyPostsLocally call
MaxPosts == 2

\* a settings object; a field that is Undefined is missing
Settings(categories, sensitivity) ==
    [kind |-> "object", categories |-> categories, sensitivity |-> sensitivity]

\* a mutant of EnabledCategoriesOf: no default object
EnabledCategoriesOf_NoDefault(settings) ==
    IF settings.kind # "object" THEN Undefined ELSE settings.categories

\* settings?.categories || {}
EnabledCategoriesOf(settings) ==
    IF settings.kind # "object" THEN CategoryMap(EmptyObject)
    ELSE IF settings.categories.kind # "object" THEN CategoryMap(EmptyObject)
    ELSE settings.categories

\* settings?.sensitivity || 'medium'
SensitivityOf(settings) ==
    IF settings.kind # "object" THEN JSString("medium")
    ELSE IF settings.sensitivity.kind # "string" THEN JSString("medium")
    ELSE IF settings.sensitivity.s = "" THEN JSString("medium")
    ELSE settings.sensitivity

\* categoryConfig?.label || result.category
CategoryLabel(enabledCategories, category) ==
    IF /\ enabledCategories.kind = "object"
       /\ category \in DOMAIN enabledCategories.map
       /\ enabledCategories.map[category].label # ""
    THEN enabledCategories.map[category].label
    ELSE category

\* what the callback of posts.map returns for a post that
\* classifyWithPatterns classified as result
PostResult(post, result, enabledCategories) ==
    IF result # Null
    THEN [id |-> post.id,
          filter |-> result.filter,
          category |-> JSString(result.category),
          confidence |-> result.confidence,
          reason |-> result.reason,
          categoryLabel |-> CategoryLabel(enabledCategories, result.category)]
    ELSE [id |-> post.id,
          filter |-> FALSE,
          category |-> Null,
          confidence |-> Rat(0, 1),
          reason |-> "No patterns matched"]

\* the callback of posts.map after its classifyWithPatterns call
PostOutcome(post, enabledCategories, call) ==
    [result |-> PostResult(post, call.result, enabledCategories),
     lastIndex |-> call.lastIndex]

\* the callback of posts.map, with the RegExp objects at li
ClassifyPost(post, enabledCategories, sensitivity, li) ==
    PostOutcome(post, enabledCategories,
                Classification(post.content, enabledCategories, sensitivity, li))

\* a mutant of ResultsFrom: the result of the first post comes last
ResultsFrom_Reversed(result, rest) ==
    [results |-> rest.results \o <<result>>, lastIndex |-> rest.lastIndex]

\* the array of results that starts with result and goes on with rest
ResultsFrom(result, rest) ==
    [results |-> <<result>> \o rest.results, lastIndex |-> rest.lastIndex]

RECURSIVE MapPosts(_, _, _, _)
\* posts.map(...) once the first post is classified: the rest is classified
\* with the RegExp objects as the first classification left them
MapRest(first, rest, enabledCategories, sensitivity) ==
    ResultsFrom(first.result,
                MapPosts(rest, enabledCategories, sensitivity, first.lastIndex))

\* posts.map(...): the posts are classified one after the other
MapPosts(posts, enabledCategories, sensitivity, li) ==
    IF posts = <<>> THEN [results |-> <<>>, lastIndex |-> li]
    ELSE MapRest(ClassifyPost(Head(posts), enabledCategories, sensitivity, li),
                 Tail(posts), enabledCategories, sensitivity)

\* a call of classifyPostsLocally with the RegExp objects at li
BatchClassification(posts, settings, li) ==
    MapPosts(posts, EnabledCategoriesOf(settings), SensitivityOf(settings), li)

\* what classifyPostsLocally returns in the current state of the module
classifyPostsLocally(posts, settings) ==
    BatchClassification(posts, settings, lastIndex).results

\* a post of the feed
Post(id, content) == [id |-> id, content |-> content, author |-> "Alice"]

\* the contents of the posts classified in batches
PostContents ==
    {Undefined, Null, Str(<<>>),
     Str(<<"had a nice lunch">>),
     Str(<<"in today's fast-paced">>),
     Str(<<"hot take", "agree?">>),
     Str(<<"in today's fast-paced", "let me share", "deep dive", "key takeaways">>)}

\* the batches of at most MaxPosts posts; the i-th post has id i
PostBatches ==
    UNION {{[i \in 1..n |-> Post(i, contents[i])] : contents \in [1..n -> PostContents]} :
             n \in 0..MaxPosts}

\* values a caller may pass as settings
SettingsValues ==
    {Null, Undefined}
    \cup {Settings(categories, sensitivity) :
            categories \in {Undefined, Null, CategoryMap(EmptyObject), ALL_ENABLED,
                            CategoryMap([c \in {"ai_generated"} |->
                                           [enabled |-> TRUE, label |-> ""]])},
            sensitivity \in {Undefined, JSString("low"), JSString("high")}}

\* a call of classifyPostsLocally that has not run yet
PostsCall(posts, settings) ==
    [op |-> "classifyPostsLocally",
     pc |-> "called",
     posts |-> posts,
     settings |-> settings,
     result |-> <<>>]

InitPosts ==
    /\ storage = Undefined
    /\ DEFAULT_LEARNING_DATA = EmptyLearningData
    /\ calls = [c \in Callers |-> Idle]
    /\ classified \in {PostsCall(posts, settings) :
                         posts \in PostBatches, settings \in SettingsValues}
    /\ adjusted = NoCall
    /\ feed = NoFeed
    /\ lastIndex = FreshLastIndex
    /\ promises = [c \in Callers |-> NoPromise]
    /\ tab = LoadedTab
    /\ worker = InstalledWorker
    /\ detection = NewDetectionStats

\* the call runs and returns
ClassifyPostsLocally ==
    /\ classified.op = "classifyPostsLocally"
    /\ classified.pc = "called"
    /\ \E call \in {BatchClassification(classified.posts, classified.settings, lastIndex)} :
           /\ classified' = [classified EXCEPT !.pc = "returned",
                                                !.result = call.results]
           /\ lastIndex' = call.lastIndex
    /\ UNCHANGED <<storage, DEFAULT_LEARNING_DATA, calls, adjusted, feed, promises, tab, worker, detection>>

SpecPosts == InitPosts /\ [][ClassifyPostsLocally]_vars

\* a classifyPostsLocally call has returned
PostsReturned ==
    /\ classified.op = "classifyPostsLocally"
    /\ classified.pc = "returned"

\* settings is null or undefined, or settings.categories is {}
NoCategorySettings ==
    \/ classified.settings \in {Null, Undefined}
    \/ /\ classified.settings.kind = "object"
       /\ classified.settings.categories = CategoryMap(EmptyObject)

\* C11: with settings null, settings undefined or settings.categories = {}
\* there is one result per post, and every result has filter = false,
\* category = null and confidence = 0
C11_NoSettingsNoFilter ==
    (PostsReturned /\ NoCategorySettings) =>
        /\ Len(classified.result) = Len(classified.posts)
        /\ \A i \in 1..Len(classified.result) :
              /\ classified.result[i].id = classified.posts[i].id
              /\ classified.result[i].filter = FALSE
              /\ classified.result[i].category = Null
              /\ classified.result[i].confidence = Rat(0, 1)

\* a batch classified with settings null whose first post matches four
\* patterns of one category
C11_Witness ==
    /\ PostsReturned
    /\ classified.settings = Null
    /\ Len(classified.posts) = MaxPosts
    /\ IsValidContent(classified.posts[1].content)
    /\ Len(MatchedPatterns("ai_generated", classified.posts[1].content)) >= 2
    /\ classified.result[1].filter = FALSE

-----------------------------------------------------------------------------
(* Properties of the Local Classifier: inputs that are not classified *)

\* content is the empty string, null, undefined or not a string
NoTextContent ==
    \/ classified.content.kind # "string"
    \/ Len(classified.content.segs) = 0

\* C12: for content that is the empty string, null, undefined or not a
\* string the call returns null, for every enabledCategories and sensitivity
\* (the call has returned: it did not throw)
C12_NoTextReturnsNull ==
    (classified.op = "classifyWithPatterns" /\ NoTextContent) =>
        (classified.pc = "returned" => classified.result = Null)

\* an array whose text matches two patterns, passed with every category
\* enabled at high sensitivity: null
C12_Witness ==
    /\ ClassifyReturned
    /\ classified.content.kind = "array"
    /\ Len(MatchedPatterns("ai_generated", classified.content)) >= 2
    /\ classified.enabledCategories = ALL_ENABLED
    /\ classified.sensitivity = JSString("high")
    /\ classified.result = Null

-----------------------------------------------------------------------------
(* A session of classifyWithPatterns calls on the same module *)

\* calls between an earlier call and the current one are counted up to here
MaxCallsBetween == 1

SessionContents ==
    {Str(<<>>),
     Str(<<"hot take">>),
     Str(<<"hot take", "agree?">>),
     Str(<<"in today's fast-paced", "let me share", "deep dive", "key takeaways">>)}

SessionCategorySets ==
    {Null, ALL_ENABLED,
     CategoryMap([c \in Categories |->
                    [enabled |-> c # "ai_generated", label |-> Labels[c]]])}

SessionSensitivities == {Undefined, JSString("low"), JSString("high")}

\* a call of the session that has not run yet; earlier is a call of the
\* session that has returned, between counts the calls made since
SessionCall(content, enabledCategories, sensitivity, earlier, between) ==
    [op |-> "classifyWithPatterns",
     pc |-> "called",
     content |-> content,
     enabledCategories |-> enabledCategories,
     sensitivity |-> sensitivity,
     result |-> Undefined,
     earlier |-> earlier,
     between |-> between]

InitSession ==
    /\ storage = Undefined
    /\ DEFAULT_LEARNING_DATA = EmptyLearningData
    /\ calls = [c \in Callers |-> Idle]
    /\ classified \in {SessionCall(content, enabledCategories, sensitivity, NoCall, 0) :
                         content \in SessionContents,
                         enabledCategories \in SessionCategorySets,
                         sensitivity \in SessionSensitivities}
    /\ adjusted = NoCall
    /\ feed = NoFeed
    /\ lastIndex = FreshLastIndex
    /\ promises = [c \in Callers |-> NoPromise]
    /\ tab = LoadedTab
    /\ worker = InstalledWorker
    /\ detection = NewDetectionStats

\* the next call of the session is made; the call that has just returned is
\* remembered in place of the earlier one, or the earlier one is kept
CallAgain ==
    /\ classified.op = "classifyWithPatterns"
    /\ classified.pc = "returned"
    /\ \E content \in SessionContents, enabledCategories \in SessionCategorySets,
          sensitivity \in SessionSensitivities, keep \in BOOLEAN :
          /\ keep => classified.earlier # NoCall
          /\ classified' =
                IF keep
                THEN SessionCall(content, enabledCategories, sensitivity,
                                 classified.earlier,
                                 Min(classified.between + 1, MaxCallsBetween))
                ELSE SessionCall(content, enabledCategories, sensitivity,
                                 [op |-> "classifyWithPatterns",
                                  content |-> classified.content,
                                  enabledCategories |-> classified.enabledCategories,
                                  sensitivity |-> classified.sensitivity,
                                  result |-> classified.result],
                                 0)
    /\ UNCHANGED <<storage, DEFAULT_LEARNING_DATA, calls, adjusted, feed,
                   lastIndex, promises, tab, worker, detection>>

SpecSession == InitSession /\ [][ClassifyWithPatterns \/ CallAgain]_vars

\* the call that has returned has the content, enabledCategories and
\* sensitivity of an earlier call of the session
SameCallAsEarlier ==
    /\ ClassifyReturned
    /\ classified.earlier # NoCall
    /\ classified.content = classified.earlier.content
    /\ classified.enabledCategories = classified.earlier.enabledCategories
    /\ classified.sensitivity = classified.earlier.sensitivity

\* C13: a call with the content, enabledCategories and sensitivity of an
\* earlier call returns what the earlier call returned, whatever calls were
\* made in between
C13_SameCallSameResult ==
    SameCallAsEarlier => classified.result = classified.earlier.result

\* a match returned again after another call was made in between
C13_Witness ==
    /\ SameCallAsEarlier
    /\ classified.between = MaxCallsBetween
    /\ classified.result # Null
    /\ classified.result.filter
    /\ classified.result = classified.earlier.result

-----------------------------------------------------------------------------
(* Properties of the Local Classifier: the result on a match *)

\* C14: a non-null result has filter = true, the reason "Matched <n>
\* pattern(s)" for the match count n of its category, and carries
\* matchedPatterns: the first 3 patterns of its category that matched (fewer
\* when fewer matched), in library order
C14_ResultCarriesMatchedPatterns ==
    (ClassifyReturned /\ classified.result # Null) =>
        LET matched == MatchedPatterns(classified.result.category, classified.content)
        IN  /\ classified.result.filter
            /\ classified.result.reason =
                  "Matched " \o ToString(Len(matched)) \o " pattern(s)"
            /\ "matchedPatterns" \in DOMAIN classified.result
            /\ classified.result.matchedPatterns =
                  SubSeq(matched, 1, Min(3, Len(matched)))

-----------------------------------------------------------------------------
(* Properties of the Feedback Processor *)

\* the eight recognized signals and their documented author deltas
DocumentedDelta ==
    [filterApproved |-> -1, filterRejected |-> 2, liked |-> 3, commented |-> 3,
     shared |-> 3, hidden |-> -10, unfollowed |-> -10, notInterested |-> -2]

\* the invocation of caller c has read the store and is about to write
AboutToWrite(c) == calls[c].pc = "setStorage"

\* the author of the invocation of caller c is present and is not "Unknown"
NamedAuthor(c) ==
    /\ calls[c].author.kind = "string"
    /\ calls[c].author.s \notin {"", "Unknown"}

\* the score that key has in a reputation map, 0 when it has none
ScoreIn(authorReputation, key) ==
    IF key \in DOMAIN authorReputation THEN authorReputation[key] ELSE JSNum(0)

\* C15: an invocation with a recognized signal and a named author leaves the
\* normalized author at clamp(old + delta, -100, 100), with the documented
\* delta, and every other author as it was; with the author absent or
\* "Unknown" it leaves the reputation map as it was
C15_ReputationDelta ==
    \A c \in DOMAIN calls :
        (AboutToWrite(c) /\ calls[c].signal \in DOMAIN DocumentedDelta) =>
            LET before == calls[c].read.authorReputation
                after == calls[c].learningData.authorReputation
            IN  IF NamedAuthor(c)
                THEN LET key == ToLowerCase(Trim(calls[c].author.s))
                         old == ScoreIn(before, key)
                     IN  /\ key \in DOMAIN after
                         /\ after[key] =
                               JSNum(Max(-100, Min(100, old.n
                                                   + DocumentedDelta[calls[c].signal])))
                         /\ DOMAIN after = DOMAIN before \cup {key}
                         /\ \A other \in DOMAIN before \ {key} :
                               after[other] = before[other]
                ELSE after = before

\* C16: an invocation whose signal is not one of the eight recognized ones
\* makes no store write (it is never about to write), and while the store
\* works no invocation is rejected
C16_UnknownSignalNoWrite ==
    \A c \in DOMAIN calls :
        /\ AboutToWrite(c) => calls[c].signal \in DOMAIN DocumentedDelta
        /\ promises[c].state # "rejected"

\* the top 5 keywords of the content of the invocation of caller c
TopKeywords(c) ==
    LET keywords == extractKeywords(calls[c].content)
    IN  SeqToSet(SubSeq(keywords, 1, Min(5, Len(keywords))))

\* the invocation of caller c has a recognized signal and non-empty content
\* and is about to write
LearnsKeywords(c) ==
    /\ AboutToWrite(c)
    /\ calls[c].signal \in DOMAIN DocumentedDelta
    /\ IsValidContent(calls[c].content)

KeepSignals == {"filterRejected", "liked", "commented", "shared"}
FilterSignals == {"filterApproved", "notInterested"}

\* C17 as stated: after a keep-direction signal every top keyword is in keep
\* and not in filter, after a filter-direction signal every top keyword is in
\* filter and not in keep, and hidden and unfollowed change neither list
C17_TopKeywordsLearned ==
    \A c \in DOMAIN calls :
        LearnsKeywords(c) =>
            LET before == calls[c].read.learnedKeywords
                after == calls[c].learningData.learnedKeywords
            IN  /\ calls[c].signal \in KeepSignals =>
                    \A kw \in TopKeywords(c) :
                        Includes(after.keep, kw) /\ ~Includes(after.filter, kw)
                /\ calls[c].signal \in FilterSignals =>
                    \A kw \in TopKeywords(c) :
                        Includes(after.filter, kw) /\ ~Includes(after.keep, kw)
                /\ calls[c].signal \in {"hidden", "unfollowed"} => after = before

\* kw is in the list after the call, or it was in the list before the call
\* and the list, full after the call, has lost it as one of its oldest entries
LearnedOrEvicted(kw, listBefore, listAfter) ==
    \/ Includes(listAfter, kw)
    \/ /\ Includes(listBefore, kw)
       /\ Len(listAfter) = MaxKeywords

\* C17 amended: the same, except that a top keyword that was already in the
\* list of the signal's direction may have been evicted from it by the
\* truncation to the 200 most recent insertions
C17_TopKeywordsLearnedOrEvicted ==
    \A c \in DOMAIN calls :
        LearnsKeywords(c) =>
            LET before == calls[c].read.learnedKeywords
                after == calls[c].learningData.learnedKeywords
            IN  /\ calls[c].signal \in KeepSignals =>
                    \A kw \in TopKeywords(c) :
                        /\ LearnedOrEvicted(kw, before.keep, after.keep)
                        /\ ~Includes(after.filter, kw)
                /\ calls[c].signal \in FilterSignals =>
                    \A kw \in TopKeywords(c) :
                        /\ LearnedOrEvicted(kw, before.filter, after.filter)
                        /\ ~Includes(after.keep, kw)
                /\ calls[c].signal \in {"hidden", "unfollowed"} => after = before

\* feedback on the recurring post when the list is full: "kubernetes" is new
\* and is learned, word 1, learned from the first post, is evicted
C17_Witness ==
    \E c \in DOMAIN calls :
        /\ LearnsKeywords(c)
        /\ calls[c].signal = "filterRejected"
        /\ TopKeywords(c) = {"kubernetes", Word(1), Word(2), "rust", "hustle"}
        /\ Len(calls[c].read.learnedKeywords.keep) = MaxKeywords
        /\ Includes(calls[c].read.learnedKeywords.keep, Word(1))
        /\ ~Includes(calls[c].read.learnedKeywords.keep, "kubernetes")
        /\ Includes(calls[c].learningData.learnedKeywords.keep, "kubernetes")
        /\ ~Includes(calls[c].learningData.learnedKeywords.keep, Word(1))

-----------------------------------------------------------------------------
(* Feedback on posts that the classifier matched *)

\* no counter of a pattern is counted beyond this
MaxObservations == 3

\* the matchedPatterns a caller passes: none, an empty list, or the
\* identifiers of library patterns, each at most once
MatchedPatternLists ==
    {Undefined, Array(<<>>), Array(<<"ai1">>), Array(<<"cf2", "ai1">>),
     Array(<<"ai1", "tl9">>)}

\* every counter of patternStats is within the bound
WithinObservations(patternStats) ==
    \A p \in DOMAIN patternStats :
        /\ patternStats[p].hits <= MaxObservations
        /\ patternStats[p].misses <= MaxObservations

SignalOnMatch ==
    \E c \in DOMAIN calls, signal \in SignalNames,
       matchedPatterns \in MatchedPatternLists :
        /\ ProcessSignal(c, signal, Undefined, Str(<<>>), matchedPatterns)
        /\ AboutToWrite(c)' => WithinObservations(calls'[c].learningData.patternStats)
        /\ UNCHANGED feed

SpecPatterns == Init /\ [][SignalOnMatch \/ SignalStored]_vars

\* the patterns listed in the matchedPatterns of the invocation of caller c
ListedPatterns(c) ==
    IF calls[c].matchedPatterns.kind = "array"
    THEN SeqToSet(calls[c].matchedPatterns.items)
    ELSE {}

\* the counters that pattern has in patternStats, zero when it has none
StatsIn(patternStats, pattern) ==
    IF pattern \in DOMAIN patternStats THEN patternStats[pattern] ELSE Stats(0, 0)

\* C18: an invocation changes patternStats only when its signal is
\* filterApproved or filterRejected and matchedPatterns is not empty; then
\* every listed pattern has hits (filterApproved) or misses (filterRejected)
\* one higher than before, from 0 for a new pattern, and the other counter
\* and the counters of all other patterns are as before
C18_PatternStatsFrame ==
    \A c \in DOMAIN calls :
        AboutToWrite(c) =>
            LET before == calls[c].read.patternStats
                after == calls[c].learningData.patternStats
                listed == ListedPatterns(c)
            IN  IF calls[c].signal \in {"filterApproved", "filterRejected"} /\ listed # {}
                THEN /\ DOMAIN after = DOMAIN before \cup listed
                     /\ \A p \in listed :
                           after[p] =
                               IF calls[c].signal = "filterApproved"
                               THEN Stats(StatsIn(before, p).hits + 1,
                                          StatsIn(before, p).misses)
                               ELSE Stats(StatsIn(before, p).hits,
                                          StatsIn(before, p).misses + 1)
                     /\ \A p \in DOMAIN before \ listed : after[p] = before[p]
                ELSE after = before

\* a filterRejected signal that lists a pattern with hits and a new pattern,
\* while a third pattern has counters
C18_Witness ==
    \E c \in DOMAIN calls :
        /\ AboutToWrite(c)
        /\ calls[c].signal = "filterRejected"
        /\ calls[c].matchedPatterns = Array(<<"ai1", "tl9">>)
        /\ DOMAIN calls[c].read.patternStats = {"ai1", "cf2"}
        /\ calls[c].read.patternStats["ai1"] = Stats(2, 0)
        /\ calls[c].learningData.patternStats["ai1"] = Stats(2, 1)
        /\ calls[c].learningData.patternStats["tl9"] = Stats(0, 1)
        /\ calls[c].learningData.patternStats["cf2"] = calls[c].read.patternStats["cf2"]

-----------------------------------------------------------------------------
(* Feedback events in quick succession: invocations that overlap *)

\* the signals given in one run
MaxSignals == 3

\* two parts of the extension record feedback on the same store
OverlappingCallers == {"review panel", "feed observer"}

\* the user hides posts of Jane Doe, or approves the filtering of her posts
InitOverlap ==
    /\ storage = Undefined
    /\ DEFAULT_LEARNING_DATA = EmptyLearningData
    /\ calls = [c \in OverlappingCallers |-> Idle]
    /\ classified = NoCall
    /\ adjusted = NoCall
    /\ feed \in {[shown |-> 0, reaction |-> r] : r \in {"hidden", "filterApproved"}}
    /\ lastIndex = FreshLastIndex
    /\ promises = [c \in OverlappingCallers |-> NoPromise]
    /\ tab = LoadedTab
    /\ worker = InstalledWorker
    /\ detection = NewDetectionStats

\* the next feedback event: a caller that is not busy starts an invocation
SignalInQuickSuccession ==
    \E c \in DOMAIN calls, author \in {JSString("Jane Doe"), JSString("  JANE DOE ")} :
        /\ feed.shown < MaxSignals
        /\ ProcessSignal(c, feed.reaction, author, Str(<<>>), Array(<<"ai1">>))
        /\ feed' = [feed EXCEPT !.shown = @ + 1]

SpecOverlap == InitOverlap /\ [][SignalInQuickSuccession \/ SignalStored]_vars

\* C19: when all invocations have ended the store holds the effects of all
\* of them: after n hidden signals the author is at -10 * n, after n
\* filterApproved signals the author is at -n and the pattern has n hits
C19_NoLostUpdate ==
    (AllIdle /\ feed.shown > 0) =>
        /\ Stored
        /\ "jane doe" \in DOMAIN storage.authorReputation
        /\ feed.reaction = "hidden" =>
              storage.authorReputation["jane doe"] = JSNum(-10 * feed.shown)
        /\ feed.reaction = "filterApproved" =>
              /\ storage.authorReputation["jane doe"] = JSNum(-1 * feed.shown)
              /\ "ai1" \in DOMAIN storage.patternStats
              /\ storage.patternStats["ai1"] = Stats(feed.shown, 0)

-----------------------------------------------------------------------------
(* Feedback while the store fails *)

\* a mutant of PropagateRejection: the failure is caught and the call resolves
PropagateRejection_Swallowed(by, reads, writes) == Fulfilled(reads, writes)

\* processSignal awaits getStorage and setStorage without try/catch: when one
\* of them rejects, the call ends there and its promise is rejected
PropagateRejection(by, reads, writes) == Rejected(by, reads, writes)

\* await getStorage('learningData') rejects
GetStorageRejects(c) ==
    /\ calls[c].pc = "idle"
    /\ promises' = [promises EXCEPT ![c] = PropagateRejection("getStorage", 1, 0)]
    /\ UNCHANGED <<storage, DEFAULT_LEARNING_DATA, calls, classified, adjusted, feed,
                   lastIndex, tab, worker, detection>>

\* await setStorage({ learningData }) rejects: nothing is stored
SetStorageRejects(c) ==
    /\ calls[c].pc = "setStorage"
    /\ calls' = [calls EXCEPT ![c] = Idle]
    /\ promises' = [promises EXCEPT ![c] = PropagateRejection("setStorage", 1, 1)]
    /\ UNCHANGED <<storage, DEFAULT_LEARNING_DATA, classified, adjusted, feed, lastIndex,
                   tab, worker, detection>>

SignalOnFailingStore ==
    \E c \in DOMAIN calls, signal \in {"hidden", "dismissed"},
       author \in {Undefined, JSString("Jane Doe")} :
        /\ ProcessSignal(c, signal, author, Str(<<>>), Undefined)
        /\ UNCHANGED feed

ReadFails == \E c \in DOMAIN calls : GetStorageRejects(c)

WriteFails == \E c \in DOMAIN calls : SetStorageRejects(c)

SpecFailures ==
    Init /\ [][SignalOnFailingStore \/ SignalStored \/ ReadFails \/ WriteFails]_vars

\* C20: a call that ends without its data being stored, after it was about to
\* write, is rejected; a call that becomes rejected leaves the persisted
\* store as it was; no call reads or writes the store more than once
C20_FailurePropagates ==
    [][\A c \in DOMAIN calls :
          /\ (/\ AboutToWrite(c)
              /\ ~AboutToWrite(c)'
              /\ storage' # calls[c].learningData)
                => promises'[c].state = "rejected"
          /\ (promises'[c].state = "rejected" /\ promises'[c] # promises[c])
                => storage' = storage
          /\ promises'[c].state \in {"fulfilled", "rejected"}
                => (promises'[c].reads <= 1 /\ promises'[c].writes <= 1)]_vars

\* a write has failed after two signals were stored: the store holds the
\* score that the two left
C20_Witness ==
    \E c \in DOMAIN calls :
        /\ promises[c] = Rejected("setStorage", 1, 1)
        /\ AllIdle
        /\ Stored
        /\ "jane doe" \in DOMAIN storage.authorReputation
        /\ storage.authorReputation["jane doe"] = JSNum(-20)

-----------------------------------------------------------------------------
(* Feedback and adjustment on a missing or corrupted Learning Store *)

\* the feedback events after the store was found missing or corrupted
MaxFeedback == 2

\* a stored learningData object; a part that is Undefined is missing
StoredParts(authorReputation, learnedKeywords, patternStats) ==
    [kind |-> "object",
     authorReputation |-> authorReputation,
     learnedKeywords |-> learnedKeywords,
     patternStats |-> patternStats]

\* what the store may hold under the key learningData when it is missing or
\* corrupted: nothing, null, an object that lacks one part, an object that
\* lacks all parts
CorruptStores ==
    {Undefined, Null,
     StoredParts(Undefined, [keep |-> <<>>, filter |-> <<>>], EmptyObject),
     StoredParts(EmptyObject, Undefined, EmptyObject),
     StoredParts(EmptyObject, [keep |-> <<>>, filter |-> <<>>], Undefined),
     StoredParts(Undefined, Undefined, Undefined)}

InitCorrupt ==
    /\ storage \in CorruptStores
    /\ DEFAULT_LEARNING_DATA = EmptyLearningData
    /\ calls = [c \in Callers |-> Idle]
    /\ classified = NoCall
    /\ adjusted = NoCall
    /\ feed = NoFeed
    /\ lastIndex = FreshLastIndex
    /\ promises = [c \in Callers |-> NoPromise]
    /\ tab = LoadedTab
    /\ worker = InstalledWorker
    /\ detection = NewDetectionStats

\* the user gives feedback while the store is as it was found
SignalOnCorruptStore ==
    \E c \in DOMAIN calls, signal \in {"liked", "hidden", "filterApproved", "dismissed"},
       author \in {Undefined, JSString("Jane Doe")}, content \in ShortContents,
       matchedPatterns \in {Undefined, Array(<<"ai1">>)} :
        /\ feed.shown < MaxFeedback
        /\ ProcessSignal(c, signal, author, content, matchedPatterns)
        /\ feed' = [feed EXCEPT !.shown = @ + 1]

\* a filtering result is adjusted with the learningData that the store holds,
\* while the store is still missing or corrupted
AdjustOnCorruptStore ==
    \E learningData \in {storage} \cap CorruptStores,
       author \in {Undefined, JSString("Jane Doe")},
       content \in {Str(<<>>), Str(<<"Kubernetes", "trust">>)},
       mp \in {Undefined, Array(<<"ai1">>)} :
        LET result == BaseResult(TRUE, "ai_generated", Hundredths(65),
                                 "Matched 1 pattern(s)", mp)
        IN  /\ adjusted' =
                  [AdjustCall(result, author, content, learningData) EXCEPT
                      !.pc = "returned",
                      !.result = applyLearningToClassification(result, author, content,
                                                               learningData)]
            /\ UNCHANGED <<storage, DEFAULT_LEARNING_DATA, calls, classified, feed,
                           lastIndex, promises, tab, worker, detection>>

SpecCorrupt ==
    InitCorrupt /\ [][SignalOnCorruptStore \/ SignalStored \/ AdjustOnCorruptStore]_vars

\* a part of learningData, or the empty part when it is missing
PartOrEmpty(learningData, field, empty) ==
    IF Lacks(learningData, field) THEN empty ELSE learningData[field]

\* learningData with every missing part taken as empty
AsEmptyWhereMissing(learningData) ==
    StoredParts(PartOrEmpty(learningData, "authorReputation", EmptyObject),
                PartOrEmpty(learningData, "learnedKeywords", [keep |-> <<>>, filter |-> <<>>]),
                PartOrEmpty(learningData, "patternStats", EmptyObject))

\* C21: with a learningData that is missing, null or lacks a part, no
\* processSignal call is rejected, the value a call is about to store is the
\* one it would store starting from the empty store, and
\* applyLearningToClassification returns what it returns with the empty store
C21_CorruptStoreAsEmpty ==
    /\ \A c \in DOMAIN calls : promises[c].state # "rejected"
    /\ \A c \in DOMAIN calls :
          (AboutToWrite(c) /\ calls[c].read \in CorruptStores \cup {EmptyLearningData}) =>
              AsEmptyWhereMissing(calls[c].learningData) =
                  UpdatedLearningData(calls[c].signal, WeightsFor(calls[c].signal),
                                      calls[c].author, calls[c].content,
                                      calls[c].matchedPatterns, EmptyLearningData)
    /\ (adjusted.op = "applyLearningToClassification" /\ adjusted.pc = "returned") =>
          adjusted.result =
              applyLearningToClassification(adjusted.base, adjusted.author,
                                            adjusted.content, EmptyLearningData)

-----------------------------------------------------------------------------
(* First use of the Learning Store *)

\* C22: an invocation that found no learningData in the store is about to
\* store what one signal makes of the empty Learning Store, whatever earlier
\* invocations did, those whose write failed included
C22_StartsFromEmpty ==
    \A c \in DOMAIN calls :
        (AboutToWrite(c) /\ storage = Undefined) =>
            calls[c].learningData =
                UpdatedLearningData(calls[c].signal, WeightsFor(calls[c].signal),
                                    calls[c].author, calls[c].content,
                                    calls[c].matchedPatterns, EmptyLearningData)

-----------------------------------------------------------------------------
(* Results with filter = false *)

\* a run makes one call of the core: it classifies a batch of posts, or it
\* adjusts one classification result
SpecResults ==
    /\ InitPosts \/ InitAdjust
    /\ [][ClassifyPostsLocally \/ ApplyLearningToClassification]_vars

\* every result of classifyPostsLocally with filter = false has category null
\* and confidence 0
UnfilteredPostsAreBlank ==
    PostsReturned =>
        \A i \in 1..Len(classified.result) :
            ~classified.result[i].filter =>
                /\ classified.result[i].category = Null
                /\ classified.result[i].confidence = Rat(0, 1)

\* applyLearningToClassification has returned a result with filter = false
AdjustedToUnfiltered ==
    /\ AdjustReturned
    /\ adjusted.result # Null
    /\ ~adjusted.result.filter

\* the call turned a result with filter = true into one with filter = false
Overridden ==
    /\ AdjustedToUnfiltered
    /\ adjusted.base.filter

\* C23 as stated: every result with filter = false, from classifyPostsLocally
\* or from applyLearningToClassification, has category null and confidence 0
C23_UnfilteredIsBlank ==
    /\ UnfilteredPostsAreBlank
    /\ AdjustedToUnfiltered =>
          /\ adjusted.result.category = "null"
          /\ adjusted.result.confidence = Rat(0, 1)

\* C23 amended: a result of classifyPostsLocally with filter = false has
\* category null and confidence 0; applyLearningToClassification returns a
\* result that came with filter = false as it came, and a result that it
\* overrides to filter = false keeps its category, with its confidence as it
\* came (trusted author) or the adjusted confidence, which is below 0.40
C23_UnfilteredIsBlankOrOverridden ==
    /\ UnfilteredPostsAreBlank
    /\ (AdjustedToUnfiltered /\ ~Overridden) => adjusted.result = adjusted.base
    /\ Overridden =>
          /\ adjusted.result.category = adjusted.base.category
          /\ \/ /\ adjusted.result.reason = "Author has strong positive reputation"
                /\ adjusted.result.confidence = adjusted.base.confidence
             \/ /\ adjusted.result.reason = "Confidence reduced by learning"
                /\ RatLess(adjusted.result.confidence, Hundredths(40))

\* a result of category ai_generated with confidence 0.65 that the adjustment
\* turned to filter = false with a confidence above 0 and below 0.40
C23_Witness ==
    /\ Overridden
    /\ adjusted.base.confidence = Hundredths(65)
    /\ adjusted.result.category = "ai_generated"
    /\ adjusted.result.reason = "Confidence reduced by learning"
    /\ RatLess(Rat(0, 1), adjusted.result.confidence)

-----------------------------------------------------------------------------
(* Keys of authorReputation *)

\* two ways the feed shows the name of one author, and the key they share
SpellingsOfJaneDoe == {"Jane Doe", "  JANE DOE "}
KeyOfJaneDoe == "jane doe"

-----------------------------------------------------------------------------
(* classifyPostsLocally: one result per post *)

\* what classifyWithPatterns returns for the content alone, in a module whose
\* RegExp objects no call has used
ClassifiedAlone(content, settings) ==
    Classification(content, EnabledCategoriesOf(settings), SensitivityOf(settings),
                   FreshLastIndex).result

\* the label that the settings configure for a category, or the category id
\* when they configure none
ConfiguredLabel(settings, category) ==
    IF settings.categories = ALL_ENABLED THEN Labels[category] ELSE category

\* C25: there is one result per post, in the order of the posts; result i has
\* the id of post i and is the classification of the content of post i alone:
\* the no-match result, or that classification with the label configured for
\* its category, the category id when no label is configured
C25_OneResultPerPost ==
    PostsReturned =>
        /\ Len(classified.result) = Len(classified.posts)
        /\ \A i \in 1..Len(classified.posts) :
              LET alone == ClassifiedAlone(classified.posts[i].content, classified.settings)
                  result == classified.result[i]
              IN  /\ result.id = classified.posts[i].id
                  /\ alone = Null =>
                        result = [id |-> classified.posts[i].id,
                                  filter |-> FALSE,
                                  category |-> Null,
                                  confidence |-> Rat(0, 1),
                                  reason |-> "No patterns matched"]
                  /\ alone # Null =>
                        /\ result.filter = alone.filter
                        /\ result.category = JSString(alone.category)
                        /\ result.confidence = alone.confidence
                        /\ result.reason = alone.reason
                        /\ result.categoryLabel =
                              ConfiguredLabel(classified.settings, alone.category)

\* a batch whose first post matches nothing and whose last post matches four
\* patterns, classified with labels configured
C25_Witness ==
    /\ PostsReturned
    /\ Len(classified.posts) >= 2
    /\ classified.settings # Null
    /\ classified.settings # Undefined
    /\ classified.settings.categories = ALL_ENABLED
    /\ classified.posts[1].content = Str(<<"had a nice lunch">>)
    /\ classified.result[1].filter = FALSE
    /\ classified.result[Len(classified.posts)].filter
    /\ classified.result[Len(classified.posts)].categoryLabel = "AI Generated"

-----------------------------------------------------------------------------
(* Sensitivity values that are not a level *)

\* the sensitivity passed is none of low, medium and high
NoLevelPassed ==
    \/ classified.sensitivity.kind # "string"
    \/ classified.sensitivity.s \notin DOMAIN config

\* C26: a call with a sensitivity that is none of low, medium and high, or
\* with none, returns what the call with medium returns
C26_UnknownSensitivityIsMedium ==
    (ClassifyReturned /\ NoLevelPassed) =>
        classified.result =
            Classification(classified.content, classified.enabledCategories,
                           JSString("medium"), FreshLastIndex).result

-----------------------------------------------------------------------------
(* High sensitivity against medium sensitivity *)

\* the call was made with medium sensitivity and returned a match
MediumMatch ==
    /\ ClassifyReturned
    /\ classified.sensitivity = JSString("medium")
    /\ classified.result # Null

\* what the call returns for the same content and categories with high
\* sensitivity
WithHigh ==
    Classification(classified.content, classified.enabledCategories,
                   JSString("high"), lastIndex).result

\* C27 as stated: where medium returns a match, high returns a match of the
\* same category with a strictly greater confidence
C27_HighAboveMedium ==
    MediumMatch =>
        /\ WithHigh # Null
        /\ WithHigh.category = classified.result.category
        /\ RatLess(classified.result.confidence, WithHigh.confidence)

\* C27 amended: where medium returns a match, high returns a match of the
\* same category; its confidence is strictly greater when the confidence of
\* medium is below the cap of 0.95, and is 0.95 too when medium is at the cap
C27_HighAboveMediumBelowCap ==
    MediumMatch =>
        /\ WithHigh # Null
        /\ WithHigh.category = classified.result.category
        /\ RatLess(classified.result.confidence, Hundredths(95)) =>
              RatLess(classified.result.confidence, WithHigh.confidence)
        /\ RatEq(classified.result.confidence, Hundredths(95)) =>
              RatEq(WithHigh.confidence, Hundredths(95))

\* a content with two matches of one category: 0.80 with medium, 0.95 with
\* high after the cap
C27_Witness ==
    /\ MediumMatch
    /\ MatchCountOf(classified.result.category) = 2
    /\ RatEq(classified.result.confidence, Hundredths(80))
    /\ RatEq(WithHigh.confidence, Hundredths(95))

-----------------------------------------------------------------------------
(* sanitizeText *)

\* the longest text sanitized, in UTF-16 code units
MaxCodeUnits == 4

\* the code units of a text by class: a high surrogate (U+D800..U+DBFF), a low
\* surrogate (U+DC00..U+DFFF), the replacement character U+FFFD, and any
\* other code unit
High == "high surrogate"
Low == "low surrogate"
Replacement == "U+FFFD"
Other == "other"
CodeUnits == {High, Low, Replacement, Other}

\* a string as its code units
Text(units) == [kind |-> "string", units |-> units]

\* .replace(/[\uD800-\uDBFF](?![\uDC00-\uDFFF])/g, '\uFFFD'): every high
\* surrogate that no low surrogate follows becomes U+FFFD
ReplaceOrphanedHigh(units) ==
    [i \in 1..Len(units) |->
        IF /\ units[i] = High
           /\ ~(i < Len(units) /\ units[i + 1] = Low)
        THEN Replacement
        ELSE units[i]]

\* a mutant of ReplaceOrphanedLow: the lookbehind is left out
ReplaceOrphanedLow_Every(units) ==
    [i \in 1..Len(units) |-> IF units[i] = Low THEN Replacement ELSE units[i]]

\* .replace(/(?<![\uD800-\uDBFF])[\uDC00-\uDFFF]/g, '\uFFFD'): every low
\* surrogate that no high surrogate precedes becomes U+FFFD
ReplaceOrphanedLow(units) ==
    [i \in 1..Len(units) |->
        IF /\ units[i] = Low
           /\ ~(i > 1 /\ units[i - 1] = High)
        THEN Replacement
        ELSE units[i]]

\* sanitizeText(text): '' for a falsy text, else the two replacements in turn
sanitizeText(text) ==
    IF text.kind # "string" \/ text.units = <<>> THEN Text(<<>>)
    ELSE Text(ReplaceOrphanedLow(ReplaceOrphanedHigh(text.units)))

\* the texts sanitized: no text, and every text of at most MaxCodeUnits units
SanitizeTexts ==
    {Null, Undefined}
    \cup {Text(units) : units \in UNION {[1..n -> CodeUnits] : n \in 0..MaxCodeUnits}}

\* a call of sanitizeText that has not run yet
SanitizeCall(text) ==
    [op |-> "sanitizeText", pc |-> "called", text |-> text, result |-> Undefined]

InitSanitize ==
    /\ storage = Undefined
    /\ DEFAULT_LEARNING_DATA = EmptyLearningData
    /\ calls = [c \in Callers |-> Idle]
    /\ classified \in {SanitizeCall(text) : text \in SanitizeTexts}
    /\ adjusted = NoCall
    /\ feed = NoFeed
    /\ lastIndex = FreshLastIndex
    /\ promises = [c \in Callers |-> NoPromise]
    /\ tab = LoadedTab
    /\ worker = InstalledWorker
    /\ detection = NewDetectionStats

\* the call runs and returns
SanitizeText ==
    /\ classified.op = "sanitizeText"
    /\ classified.pc = "called"
    /\ classified' = [classified EXCEPT !.pc = "returned",
                                        !.result = sanitizeText(classified.text)]
    /\ UNCHANGED <<storage, DEFAULT_LEARNING_DATA, calls, adjusted, feed, lastIndex,
                   promises, tab, worker, detection>>

SpecSanitize == InitSanitize /\ [][SanitizeText]_vars

\* sanitizeText has returned for a text that is a string
SanitizedString ==
    /\ classified.op = "sanitizeText"
    /\ classified.pc = "returned"
    /\ classified.text.kind = "string"

\* code unit i of units is a surrogate without its partner: a high surrogate
\* that no low surrogate follows, or a low surrogate that no high surrogate
\* precedes
Lone(units, i) ==
    \/ units[i] = High /\ (i = Len(units) \/ units[i + 1] # Low)
    \/ units[i] = Low /\ (i = 1 \/ units[i - 1] # High)

\* C28: the output has the length of the input; each lone surrogate of the
\* input is U+FFFD in the output and every other code unit is as it was;
\* the output has no lone surrogate, and sanitizing it gives it back
C28_LoneSurrogatesReplaced ==
    SanitizedString =>
        LET input == classified.text.units
            output == classified.result.units
        IN  /\ Len(output) = Len(input)
            /\ \A i \in 1..Len(input) :
                  output[i] = IF Lone(input, i) THEN Replacement ELSE input[i]
            /\ \A i \in 1..Len(output) : ~Lone(output, i)
            /\ sanitizeText(classified.result) = classified.result

\* a lone high surrogate, a pair and a lone low surrogate in a row
C28_Witness ==
    /\ SanitizedString
    /\ classified.text = Text(<<High, High, Low, Low>>)
    /\ classified.result = Text(<<Replacement, High, Low, Replacement>>)

-----------------------------------------------------------------------------
(* Content script: messaging, filter visuals, scanning *)

\* every variable but tab
BackgroundVars ==
    <<storage, DEFAULT_LEARNING_DATA, calls, classified, adjusted, feed, lastIndex,
      promises, worker, detection>>

Truthy(flag) == flag = "true"

\* the properties of a classification the script has none of
NoClassification ==
    [filter |-> "undefined", confirmed |-> "undefined", rejected |-> "undefined"]

\* state.classifications[postId], as its filter, confirmed and rejected
getClassification(t, postId) ==
    IF postId \in DOMAIN t.state.classifications
    THEN t.state.classifications[postId]
    ELSE NoClassification

\* the script's state with updates spread over the classification of postId
updateClassification(t, postId, updates) ==
    [t EXCEPT !.state.classifications = SetProperty(@, postId, updates)]

ClassifyPostsMessage(batch) == [type |-> "classifyPosts", posts |-> batch]

RecordFeedbackMessage(postId, feedback) ==
    [type |-> "recordFeedback", postId |-> postId, feedback |-> feedback]

\* sendMessage(message): the tab afterwards and whether the message went out.
\* Nothing is sent once contextValid is false; chrome.runtime.sendMessage
\* throws when the channel to the background is closed, and the script then
\* marks its context as invalid and itself as disabled.
sendMessage(t, message) ==
    IF ~t.state.contextValid
    THEN [tab |-> t, delivered |-> FALSE]
    ELSE IF t.channel = "closed"
    THEN [tab |-> [t EXCEPT !.state.contextValid = FALSE, !.state.enabled = FALSE],
          delivered |-> FALSE]
    ELSE [tab |-> [t EXCEPT !.sent = IF message.type = "recordFeedback"
                                      THEN Append(@, message)
                                      ELSE @],
          delivered |-> TRUE]

\* updateBadgeVisibility: the buttons a badge shows for a classification
BadgeButtons(classification) ==
    IF Truthy(classification.rejected) THEN "rejected"
    ELSE IF Truthy(classification.confirmed) THEN "confirmed"
    ELSE "pending"

\* renderPanelContent: the buttons a review card shows for a classification
CardButtons(classification) ==
    IF Truthy(classification.confirmed) THEN "confirmed"
    ELSE IF Truthy(classification.rejected) THEN "rejected"
    ELSE "pending"

\* applyFilterVisual(postId, classification)
applyFilterVisual(t, postId, classification) ==
    IF postId \notin t.document.posts
    THEN t
    ELSE [t EXCEPT
            !.document.filtered =
                IF Truthy(classification.filter) THEN @ \cup {postId} ELSE @,
            !.document.badges =
                IF postId \in DOMAIN @
                THEN @
                ELSE SetProperty(@, postId, BadgeButtons(classification))]

\* document.querySelectorAll('.lpf-filtered').forEach(...): every element of
\* class lpf-filtered loses the class and its badge
RemoveFilterVisuals(t) ==
    [t EXCEPT
        !.document.filtered = {},
        !.document.badges = [p \in DOMAIN @ \ t.document.filtered |-> @[p]]]

\* the posts the review panel lists
Listed(t) ==
    {p \in DOMAIN t.state.classifications :
        \/ Truthy(t.state.classifications[p].filter)
        \/ Truthy(t.state.classifications[p].confirmed)
        \/ Truthy(t.state.classifications[p].rejected)}

renderPanelContent(t) ==
    [t EXCEPT !.document.cards =
                  [p \in Listed(t) |-> CardButtons(t.state.classifications[p])]]

\* if (state.panelOpen) renderPanelContent()
RenderIfOpen(t) == IF t.state.panelOpen THEN renderPanelContent(t) ELSE t

\* processNewPosts, for one element: the filter visual is applied again to a
\* classified post that has lost its badge
ReappliesVisual(t, p) ==
    /\ \/ Truthy(getClassification(t, p).filter)
       \/ Truthy(getClassification(t, p).rejected)
    /\ p \notin DOMAIN t.document.badges

\* processNewPosts, for one element: the post is new and long enough
IsNewPost(t, p) ==
    /\ p \notin t.state.processedPosts
    /\ PostLength(p) >= MIN_POST_LENGTH

\* processNewPosts, for one element: what it does to the tab
ScanPost(t, p) ==
    [(IF ReappliesVisual(t, p) THEN applyFilterVisual(t, p, getClassification(t, p)) ELSE t)
        EXCEPT !.state.processedPosts = @ \cup {p}]

\* the loop of processNewPosts over the posts of the document from p on
RECURSIVE ScanPosts(_, _, _)
ScanPosts(t, p, newPosts) ==
    IF p > MaxPagePosts
    THEN [tab |-> t, newPosts |-> newPosts]
    ELSE IF p \notin t.document.posts
    THEN ScanPosts(t, p + 1, newPosts)
    ELSE ScanPosts(ScanPost(t, p), p + 1,
                   IF IsNewPost(t, p) THEN Append(newPosts, p) ELSE newPosts)

\* a mutant of scheduleBatchClassification: a timeout that is pending is
\* left to run
scheduleBatchClassification_NoRestart(t) ==
    IF t.state.batchTimer = "armed" THEN t
    ELSE [t EXCEPT !.state.batchTimer = "armed",
                   !.clock.batchTimeout = BATCH_DELAY_MS]

\* scheduleBatchClassification(), up to the callback: the timeout is
\* cleared and set again
scheduleBatchClassification(t) ==
    [t EXCEPT !.state.batchTimer = "armed",
              !.clock.batchTimeout = BATCH_DELAY_MS]

\* state.pendingPosts.push(...newPosts); scheduleBatchClassification()
QueuePosts(scan) ==
    IF scan.newPosts = <<>>
    THEN scan.tab
    ELSE scheduleBatchClassification(
             [scan.tab EXCEPT !.state.pendingPosts = @ \o scan.newPosts,
                              !.clock.sinceDiscovery = 0])

processNewPosts(t) == QueuePosts(ScanPosts(t, 0, <<>>))

\* the rescan of the panel's button and of the rescanFeed message
Rescan(t) ==
    processNewPosts(RemoveFilterVisuals(
        [t EXCEPT !.state.processedPosts = {},
                  !.state.pendingPosts = <<>>,
                  !.state.classifications = [p \in {} |-> 0],
                  !.inFlight = [i \in DOMAIN @ |-> [@[i] EXCEPT !.stale = TRUE]],
                  !.history = [requests |-> [p \in {} |-> 0],
                               applied |-> [p \in {} |-> 0],
                               fromStale |-> {}]]))

\* the callback of the MutationObserver that init sets on the feed
ObserverCallback(t) ==
    IF ~t.state.contextValid THEN t ELSE processNewPosts(t)

\* the timeout callback after the batch is spliced off the queue and the
\* panel rendered: the request goes out and awaits its response, or it does
\* not and the callback goes on at once, past its await
RequestClassification(send, batch) ==
    IF send.delivered
    THEN [send.tab EXCEPT
            !.inFlight = Append(@, [posts |-> batch, stale |-> FALSE]),
            !.history.requests =
                [p \in DOMAIN @ \cup SeqToSet(batch) |->
                    (IF p \in DOMAIN @ THEN @[p] ELSE 0)
                    + Cardinality({i \in 1..Len(batch) : batch[i] = p})]]
    ELSE [send.tab EXCEPT !.state.scanning = FALSE]

\* the timeout callback of scheduleBatchClassification, up to its await
BatchTimeout(t) ==
    IF t.state.pendingPosts = <<>>
    THEN t
    ELSE RequestClassification(
             sendMessage(RenderIfOpen([t EXCEPT !.state.pendingPosts = <<>>,
                                                !.state.scanning = TRUE]),
                         ClassifyPostsMessage(t.state.pendingPosts)),
             t.state.pendingPosts)

\* { ...result, content, author }: a result of a classifyPosts response as
\* the response handler stores it, with its filter and neither confirmed nor
\* rejected
StoredResult(filter) ==
    [filter |-> IF filter THEN "true" ELSE "false",
     confirmed |-> "undefined",
     rejected |-> "undefined"]

\* state.classifications[result.id] = {...}, for a result of a request that
\* is stale or not
StoreResult(t, postId, filter, stale) ==
    [t EXCEPT !.state.classifications = SetProperty(@, postId, StoredResult(filter)),
              !.history.applied =
                  SetProperty(@, postId, IF postId \in DOMAIN @ THEN @[postId] + 1 ELSE 1),
              !.history.fromStale = IF stale THEN @ \cup {postId} ELSE @ \ {postId}]

\* the sequence s without its element i
Without(s, i) == [j \in 1..(Len(s) - 1) |-> IF j < i THEN s[j] ELSE s[j + 1]]

\* the loop of the response handler over the results for the posts of a
\* request from index i on
RECURSIVE StoreResults(_, _, _, _)
StoreResults(t, request, i, filters) ==
    IF i > Len(request.posts)
    THEN t
    ELSE StoreResults(
             IF filters[request.posts[i]]
             THEN applyFilterVisual(
                      StoreResult(t, request.posts[i], TRUE, request.stale),
                      request.posts[i], StoredResult(TRUE))
             ELSE StoreResult(t, request.posts[i], FALSE, request.stale),
             request, i + 1, filters)

\* processFeedback with a rejection that keeps the post filtered
FeedbackUpdates_Sticky(feedback) ==
    IF feedback = "approved"
    THEN [filter |-> "true", confirmed |-> "true", rejected |-> "false"]
    ELSE [filter |-> "true", confirmed |-> "false", rejected |-> "true"]

\* processFeedback(postId, feedback, content, author): the updates it
\* spreads over the classification
FeedbackUpdates(feedback) ==
    IF feedback = "approved"
    THEN [filter |-> "true", confirmed |-> "true", rejected |-> "false"]
    ELSE [filter |-> "false", confirmed |-> "false", rejected |-> "true"]

processFeedback(t, postId, feedback) ==
    updateClassification(sendMessage(t, RecordFeedbackMessage(postId, feedback)).tab,
                         postId, FeedbackUpdates(feedback))

\* applyPostElementClasses(element, classification)
applyPostElementClasses(t, postId, classification) ==
    IF postId \notin t.document.posts
    THEN t
    ELSE IF Truthy(classification.rejected)
    THEN [t EXCEPT !.document.filtered = @ \ {postId}]
    ELSE IF Truthy(classification.filter)
    THEN [t EXCEPT !.document.filtered = @ \cup {postId}]
    ELSE t

\* updateBadgeVisibility(badge, classification), for the badge of postId if
\* it has one
updateBadgeVisibility(t, postId, classification) ==
    IF postId \in DOMAIN t.document.badges
    THEN [t EXCEPT !.document.badges[postId] = BadgeButtons(classification)]
    ELSE t

\* handleFeedback and handleReviewAction after processFeedback: the element's
\* classes, the badge, the panel
RefreshAfterFeedback(t, postId) ==
    RenderIfOpen(
        updateBadgeVisibility(
            applyPostElementClasses(t, postId, getClassification(t, postId)),
            postId, getClassification(t, postId)))

\* the user's click is noted
Clicked(t, postId, feedback) ==
    [t EXCEPT !.user.clicks = @ + 1,
              !.user.latest = [postId |-> postId, feedback |-> feedback]]

\* the buttons "approved" and "rejected" stand behind
ShowsButton(buttons, feedback) ==
    \/ buttons = "pending"
    \/ buttons = "rejected" /\ feedback = "approved"
    \/ buttons = "confirmed" /\ feedback = "rejected"

Feedbacks == {"approved", "rejected"}

-----------------------------------------------------------------------------
(* Content script: what happens in the tab *)

\* LinkedIn changes the feed, adding at most one post: the MutationObserver
\* of init runs
FeedMutated ==
    \E added \in SUBSET (PagePosts \ tab.document.posts) :
        /\ Cardinality(added) <= 1
        /\ tab' = ObserverCallback([tab EXCEPT !.document.posts = @ \cup added])
        /\ UNCHANGED BackgroundVars

\* the user navigates within the feed: the URL observer runs
SpaNavigation ==
    /\ tab' = processNewPosts(tab)
    /\ UNCHANGED BackgroundVars

\* time passes: the pending timeout comes nearer, the last discovery of new
\* posts lies further back
TimePasses ==
    /\ \/ tab.state.batchTimer = "armed" /\ tab.clock.batchTimeout > 0
       \/ tab.clock.sinceDiscovery < BATCH_DELAY_MS
    /\ tab' = [tab EXCEPT
                 !.clock.batchTimeout =
                     IF tab.state.batchTimer = "armed"
                     THEN Max(0, @ - ClockStepMs) ELSE @,
                 !.clock.sinceDiscovery = Min(BATCH_DELAY_MS, @ + ClockStepMs)]
    /\ UNCHANGED BackgroundVars

\* the timeout set by scheduleBatchClassification expires
BatchTimerFires ==
    /\ tab.state.batchTimer = "armed"
    /\ tab.clock.batchTimeout = 0
    /\ Len(tab.inFlight) < MaxInFlight
    /\ tab' = BatchTimeout([tab EXCEPT !.state.batchTimer = "fired"])
    /\ UNCHANGED BackgroundVars

\* the background answers a classifyPosts request with one result per
\* post, or with an error
ClassifyPostsResponds ==
    \E i \in 1..Len(tab.inFlight) :
        /\ \/ \E filters \in [SeqToSet(tab.inFlight[i].posts) -> BOOLEAN] :
                  tab' = RenderIfOpen(
                             StoreResults([tab EXCEPT !.inFlight = Without(@, i),
                                                      !.state.scanning = FALSE],
                                          tab.inFlight[i], 1, filters))
           \/ tab' = RenderIfOpen([tab EXCEPT !.inFlight = Without(@, i),
                                              !.state.scanning = FALSE])
        /\ UNCHANGED BackgroundVars

\* the popup sends toggleEnabled
ToggleEnabled ==
    \E enabled \in BOOLEAN :
        /\ tab' = IF enabled
                  THEN [tab EXCEPT !.state.enabled = TRUE]
                  ELSE RemoveFilterVisuals([tab EXCEPT !.state.enabled = FALSE])
        /\ UNCHANGED BackgroundVars

\* the popup sends rescanFeed, or the user clicks Rescan in the panel
RescanFeed ==
    /\ tab' = Rescan(tab)
    /\ UNCHANGED BackgroundVars

\* the user opens or closes the review panel
TogglePanel ==
    /\ tab' = RenderIfOpen([tab EXCEPT !.state.panelOpen = ~@])
    /\ UNCHANGED BackgroundVars

\* the extension is reloaded or updated: the channel of this tab's script
\* to the background is closed for good
ExtensionReloaded ==
    /\ tab.channel = "open"
    /\ tab' = [tab EXCEPT !.channel = "closed"]
    /\ UNCHANGED BackgroundVars

\* the user clicks approve or reject on the badge of a post
BadgeFeedback ==
    \E postId \in DOMAIN tab.document.badges, feedback \in Feedbacks :
        /\ tab.user.clicks < MaxClicks
        /\ ShowsButton(tab.document.badges[postId], feedback)
        /\ tab' = RefreshAfterFeedback(
                      processFeedback(Clicked(tab, postId, feedback), postId, feedback),
                      postId)
        /\ UNCHANGED BackgroundVars

\* the user clicks approve or reject on the review card of a post
PanelFeedback ==
    \E postId \in DOMAIN tab.document.cards, feedback \in Feedbacks :
        /\ tab.user.clicks < MaxClicks
        /\ tab.state.panelOpen
        /\ ShowsButton(tab.document.cards[postId], feedback)
        /\ tab' = RefreshAfterFeedback(
                      processFeedback(Clicked(tab, postId, feedback), postId, feedback),
                      postId)
        /\ UNCHANGED BackgroundVars

SpecTab ==
    Init /\ [][FeedMutated \/ SpaNavigation \/ BatchTimerFires \/ ClassifyPostsResponds
               \/ ToggleEnabled \/ RescanFeed \/ TogglePanel \/ ExtensionReloaded
               \/ BadgeFeedback \/ PanelFeedback \/ TimePasses]_vars

-----------------------------------------------------------------------------
(* C29: a disabled extension does not scan *)

\* the script was told toggleEnabled with enabled = false, and not to enable
\* again since
DisabledByToggle(t) == ~t.state.enabled /\ t.state.contextValid

\* this step adds a post to the pending queue
PostQueued ==
    /\ tab'.state.pendingPosts # tab.state.pendingPosts
    /\ tab'.state.pendingPosts # <<>>

\* this step sends a classifyPosts request
RequestSent == Len(tab'.inFlight) > Len(tab.inFlight)

\* this step puts a badge on a post that had none
BadgeAdded == ~(DOMAIN tab'.document.badges \subseteq DOMAIN tab.document.badges)

\* this step is the script's handling of toggleEnabled with enabled = false
Disabling == ~DisabledByToggle(tab) /\ DisabledByToggle(tab')

\* C29: when toggleEnabled with enabled = false is received, all filter
\* badges are removed, and until the extension is enabled again no post is
\* added to the pending queue, no classifyPosts request is sent and no badge
\* comes back, whatever DOM mutations, SPA navigations or timer expiries follow
C29_DisabledStopsScanning ==
    [][/\ Disabling => DOMAIN tab'.document.badges = {}
       /\ DisabledByToggle(tab) => ~PostQueued /\ ~RequestSent /\ ~BadgeAdded]_vars

-----------------------------------------------------------------------------
(* C30: feedback decisions are reversible and recorded *)

\* the classification of postId is the one of a post the user approved
\* (feedback "approved") or rejected: exactly one of confirmed and rejected
\* is set, filter equals confirmed, and confirmed says which
DecidedAs(t, postId, feedback) ==
    /\ Truthy(getClassification(t, postId).confirmed)
           # Truthy(getClassification(t, postId).rejected)
    /\ Truthy(getClassification(t, postId).filter)
           = Truthy(getClassification(t, postId).confirmed)
    /\ Truthy(getClassification(t, postId).confirmed) = (feedback = "approved")

\* C30: after any sequence of approve and reject actions on a post, from its
\* badge or from the review panel, the post's classification has exactly one
\* of confirmed and rejected set, filter equals confirmed, the state is the
\* one of the latest action, and every action has issued one recordFeedback
\* message carrying it
C30_LatestActionDecides ==
    tab.user.latest # NoClick =>
        /\ DecidedAs(tab, tab.user.latest.postId, tab.user.latest.feedback)
        /\ Len(tab.sent) = tab.user.clicks
        /\ tab.sent[Len(tab.sent)] =
               RecordFeedbackMessage(tab.user.latest.postId, tab.user.latest.feedback)

\* this step is an approve or reject action of the user
ClickStep == tab'.user.clicks = tab.user.clicks + 1

\* the script can reach the background: the extension was not reloaded
Connected(t) == t.state.contextValid /\ t.channel = "open"

\* an action leaves the classification of its post decided as the action says
ClickDecides ==
    ClickStep => DecidedAs(tab', tab'.user.latest.postId, tab'.user.latest.feedback)

\* an action issues one recordFeedback message carrying it if the script
\* can reach the background, and none otherwise; nothing else issues one
ClickRecorded ==
    tab'.sent = IF ClickStep /\ Connected(tab)
                THEN Append(tab.sent,
                            RecordFeedbackMessage(tab'.user.latest.postId,
                                                  tab'.user.latest.feedback))
                ELSE tab.sent

\* a decided classification stays as it is until the next action on its
\* post, a rescan (which forgets every classification), or a response to a
\* classifyPosts request
DecisionStands ==
    \A p \in PagePosts :
        (/\ \/ Truthy(getClassification(tab, p).confirmed)
            \/ Truthy(getClassification(tab, p).rejected)
         /\ getClassification(tab', p) # getClassification(tab, p))
        => \/ ClickStep /\ tab'.user.latest.postId = p
           \/ DOMAIN tab'.state.classifications = {}
           \/ Len(tab'.inFlight) < Len(tab.inFlight)

\* a classification is undecided (neither confirmed nor rejected is defined)
\* or decided one way
Settled(t) ==
    \A p \in DOMAIN t.state.classifications :
        \/ /\ t.state.classifications[p].confirmed = "undefined"
           /\ t.state.classifications[p].rejected = "undefined"
        \/ \E feedback \in Feedbacks : DecidedAs(t, p, feedback)

\* C30, amended: every approve or reject action on a post, from its badge or
\* from the review panel, leaves the post's classification with exactly one
\* of confirmed and rejected set as the action says and filter equal to
\* confirmed, whatever it was before; the classification stays so until the
\* next action on the post, a rescan or a classifyPosts response; and every
\* action, including a reversal, issues one recordFeedback message carrying
\* it as long as the extension was not reloaded, and none after that
C30_EachActionDecidesAndIsRecorded ==
    [][ClickDecides /\ ClickRecorded /\ DecisionStands /\ Settled(tab')]_vars

\* the user rejected the filter of post 1 and then approved it: both actions
\* went out, and the post is confirmed
C30_Witness ==
    /\ tab.sent = <<RecordFeedbackMessage(1, "rejected"),
                    RecordFeedbackMessage(1, "approved")>>
    /\ DecidedAs(tab, 1, "approved")
    /\ tab.document.badges = (1 :> "confirmed")
    /\ 1 \in tab.document.filtered

-----------------------------------------------------------------------------
(* Background service worker: recordFeedback and regeneratePreferenceProfile *)

\* every variable but worker
AllButWorker ==
    <<storage, DEFAULT_LEARNING_DATA, calls, classified, adjusted, feed, lastIndex,
      promises, tab, detection>>

\* newCount >= PROFILE_REGEN_THRESHOLD
RegenerationDue(newCount) == newCount >= PROFILE_REGEN_THRESHOLD

\* recordFeedback(postId, content, author, category, feedback): the item is
\* pushed on the history, feedbackCountSinceRegen is stored one higher, and
\* if the new count is at the threshold regeneratePreferenceProfile is called
\* and not awaited: it runs up to its first await
RecordedFeedback(w) ==
    [w EXCEPT
        !.feedbackCountSinceRegen = @ + 1,
        !.recorded = @ + 1,
        !.started = IF RegenerationDue(w.feedbackCountSinceRegen + 1) THEN @ + 1 ELSE @,
        !.regenerations = IF RegenerationDue(w.feedbackCountSinceRegen + 1)
                          THEN Append(@, "getApiKey")
                          ELSE @]

\* the content script's recordFeedback message is handled
RecordFeedback ==
    /\ worker.recorded < MaxRecorded
    /\ RegenerationDue(worker.feedbackCountSinceRegen + 1)
           => Len(worker.regenerations) < MaxRegenerating
    /\ worker' = RecordedFeedback(worker)
    /\ UNCHANGED AllButWorker

\* the user saves an API key on the options page
SaveApiKey ==
    /\ ~worker.apiKey
    /\ worker' = [worker EXCEPT !.apiKey = TRUE]
    /\ UNCHANGED AllButWorker

\* regeneratePreferenceProfile after await getApiKey(): without a key it
\* returns, with one it sends the request to the API
RegenerationReadsKey ==
    \E i \in 1..Len(worker.regenerations) :
        /\ worker.regenerations[i] = "getApiKey"
        /\ worker' = [worker EXCEPT
                        !.regenerations = IF worker.apiKey
                                          THEN [@ EXCEPT ![i] = "fetch"]
                                          ELSE Without(@, i)]
        /\ UNCHANGED AllButWorker

\* regeneratePreferenceProfile after await fetch(...): with a response that
\* is ok the profile is stored and feedbackCountSinceRegen set to 0; with
\* another response, or when fetch throws, nothing is stored
RegenerationResponds ==
    \E i \in 1..Len(worker.regenerations), ok \in BOOLEAN :
        /\ worker.regenerations[i] = "fetch"
        /\ worker' = [worker EXCEPT
                        !.regenerations = Without(@, i),
                        !.feedbackCountSinceRegen = IF ok THEN 0 ELSE @]
        /\ UNCHANGED AllButWorker

SpecWorker ==
    Init /\ [][RecordFeedback \/ SaveApiKey \/ RegenerationReadsKey
               \/ RegenerationResponds]_vars

\* C31: regeneratePreferenceProfile is started once per 25 recorded feedback
\* items: when the count of items since the last regeneration reaches 25,
\* and the count then restarts from 0
C31_RegeneratedEvery25 ==
    /\ worker.started = worker.recorded \div PROFILE_REGEN_THRESHOLD
    /\ worker.feedbackCountSinceRegen < PROFILE_REGEN_THRESHOLD
           \/ worker.regenerations # <<>>

-----------------------------------------------------------------------------
(* DetectionStats (src/src/dom-healing.js) *)

\* every variable but detection
AllButDetection ==
    <<storage, DEFAULT_LEARNING_DATA, calls, classified, adjusted, feed, lastIndex,
      promises, tab, worker>>

\* a mutant of recordSuccess: consecutiveFailures is left as it is
recordSuccess_KeepsStreak(stats) ==
    [stats EXCEPT !.attempts = @ + 1, !.successes = @ + 1]

\* recordSuccess()
recordSuccess(stats) ==
    [stats EXCEPT !.attempts = @ + 1, !.successes = @ + 1, !.consecutiveFailures = 0]

\* recordFailure(), called when Date.now() is now
recordFailure(stats, now) ==
    [stats EXCEPT !.attempts = @ + 1,
                  !.failures = @ + 1,
                  !.consecutiveFailures = @ + 1,
                  !.lastFailureTime = now]

\* getSuccessRate(): the quotient of two integers below 2^53 is below 0.5 as
\* a double exactly when it is as a rational
getSuccessRate(stats) ==
    IF stats.attempts = 0 THEN Rat(1, 1) ELSE Rat(stats.successes, stats.attempts)

\* isHealthy()
isHealthy(stats) ==
    IF stats.consecutiveFailures >= 3 THEN FALSE
    ELSE IF stats.attempts >= 5 /\ RatLess(getSuccessRate(stats), Rat(1, 2)) THEN FALSE
    ELSE TRUE

\* stats.recordSuccess() is called
RecordSuccess ==
    /\ detection.stats.attempts < MaxAttempts
    /\ detection' = [stats |-> recordSuccess(detection.stats),
                     calls |-> Append(detection.calls, "recordSuccess")]
    /\ UNCHANGED AllButDetection

\* stats.recordFailure() is called; the clock reads the number of the call
RecordFailure ==
    /\ detection.stats.attempts < MaxAttempts
    /\ detection' = [stats |-> recordFailure(detection.stats, Len(detection.calls) + 1),
                     calls |-> Append(detection.calls, "recordFailure")]
    /\ UNCHANGED AllButDetection

SpecDetection == Init /\ [][RecordSuccess \/ RecordFailure]_vars

\* how many of the calls were call
CountOf(log, call) == Cardinality({i \in 1..Len(log) : log[i] = call})

\* the recordFailure calls made since the last recordSuccess call
FailuresSinceSuccess(log) ==
    Cardinality({i \in 1..Len(log) :
                    \A j \in i..Len(log) : log[j] = "recordFailure"})

\* C32: after any sequence of recordSuccess and recordFailure calls,
\* attempts = successes + failures (each the number of its calls),
\* consecutiveFailures is the number of failures since the last success, and
\* isHealthy() is false exactly when there are 3 or more consecutive failures
\* or 5 or more attempts of which less than half succeeded; with zero
\* attempts it is healthy
C32_StatsFollowCalls ==
    /\ detection.stats.attempts = detection.stats.successes + detection.stats.failures
    /\ detection.stats.attempts = Len(detection.calls)
    /\ detection.stats.successes = CountOf(detection.calls, "recordSuccess")
    /\ detection.stats.consecutiveFailures = FailuresSinceSuccess(detection.calls)
    /\ isHealthy(detection.stats) =
           ~ \/ FailuresSinceSuccess(detection.calls) >= 3
             \/ /\ Len(detection.calls) >= 5
                /\ 2 * CountOf(detection.calls, "recordSuccess") < Len(detection.calls)
    /\ detection.calls = <<>> => isHealthy(detection.stats)

\* five calls or more, fewer than three failures since the last success, and
\* not healthy: less than half of the attempts succeeded
C32_Witness ==
    /\ Len(detection.calls) >= 5
    /\ CountOf(detection.calls, "recordSuccess") > 0
    /\ detection.stats.consecutiveFailures < 3
    /\ ~isHealthy(detection.stats)

-----------------------------------------------------------------------------
(* C33: the bands of the author adjustment *)

\* the call was made for a base result with filter = true and an author
\* name, with learning data in which the author's score is a number
ScoredAuthorCall ==
    /\ AdjustReturned
    /\ adjusted.base # Null
    /\ adjusted.base.filter
    /\ adjusted.learningData # Undefined
    /\ adjusted.author.kind = "string"
    /\ ToLowerCase(Trim(adjusted.author.s)) \in DOMAIN adjusted.learningData.authorReputation
           => ~adjusted.learningData.authorReputation[ToLowerCase(Trim(adjusted.author.s))].nan

\* the score of the normalized author of the call, 0 when it has none
AuthorScore ==
    ScoreIn(adjusted.learningData.authorReputation,
            ToLowerCase(Trim(adjusted.author.s))).n

\* the adjustments of the call
CallAdjustments ==
    getLearningAdjustments(adjusted.author, adjusted.content,
                           adjusted.base.matchedPatterns, adjusted.learningData)

\* the author adjustment, in hundredths, that the bands give for a score
\* below 20
Band(r) ==
    CASE r <= -10 -> 20
      [] -10 < r /\ r <= -5 -> 10
      [] -5 < r /\ r < 5 -> 0
      [] 5 <= r /\ r < 10 -> -15
      [] 10 <= r /\ r < 20 -> -30

\* the bands are applied: a score of 20 or more sets dominated, a lower one
\* gives the adjustment of its band, which is what the confidence changes by
\* when no learned word and no weighted pattern adds to it
BandApplied ==
    /\ AuthorScore >= 20 => CallAdjustments.dominated = "keep"
    /\ AuthorScore < 20 =>
          /\ CallAdjustments.dominated = "null"
          /\ CallAdjustments.authorAdjustment = Band(AuthorScore)
          /\ (/\ CallAdjustments.keywordAdjustment = 0
              /\ DOMAIN CallAdjustments.patternWeights = {})
             => SameValue(adjusted.result.confidence,
                          ClampConfidence(RatAdd(adjusted.base.confidence,
                                                 Hundredths(Band(AuthorScore)))))

-----------------------------------------------------------------------------
(* C34: the keyword adjustment *)

\* a call that has returned for a result with filter = true, string content
\* and learning data
KeywordCall ==
    /\ adjusted.op = "applyLearningToClassification"
    /\ adjusted.pc = "returned"
    /\ adjusted.base # Null
    /\ adjusted.base.filter
    /\ adjusted.learningData # Undefined
    /\ adjusted.content.kind = "string"

\* the learned words of a list that occur in the content of the call
Occurring(list) ==
    {w \in SeqToSet(list) : ContentIncludes(adjusted.content, w)}

KeepOccurring == Cardinality(Occurring(adjusted.learningData.learnedKeywords.keep))
FilterOccurring == Cardinality(Occurring(adjusted.learningData.learnedKeywords.filter))

\* C34: with k learned keep words and f learned filter words occurring in
\* the content, the keyword adjustment is +0.10 * min(f - k, 3) when f > k,
\* -0.10 * min(k - f, 3) when k > f and 0 when f = k, so it is always within
\* [-0.30, +0.30]
C34_KeywordAdjustment ==
    KeywordCall =>
        LET k == KeepOccurring
            f == FilterOccurring
            adjustment == CallAdjustments.keywordAdjustment
        IN  /\ f > k => adjustment = 10 * Min(f - k, 3)
            /\ k > f => adjustment = -10 * Min(k - f, 3)
            /\ f = k => adjustment = 0
            /\ -30 <= adjustment /\ adjustment <= 30

\* four learned keep words occur in the content and no filter word does: the
\* adjustment is -0.30, not -0.40, and a base confidence of 0.95 becomes 0.65
C34_Witness ==
    /\ KeywordCall
    /\ KeepOccurring = 4
    /\ FilterOccurring = 0
    /\ CallAdjustments.keywordAdjustment = -30
    /\ CallAdjustments.authorAdjustment = 0
    /\ CallAdjustments.dominated = "null"
    /\ DOMAIN CallAdjustments.patternWeights = {}
    /\ adjusted.base.confidence = Hundredths(95)
    /\ adjusted.result.confidence = Hundredths(65)

-----------------------------------------------------------------------------
(* C35: the order of the computation of the new confidence *)

\* a call that has returned for a result with filter = true whose author is
\* not dominated
UndominatedCall ==
    /\ adjusted.op = "applyLearningToClassification"
    /\ adjusted.pc = "returned"
    /\ adjusted.base # Null
    /\ adjusted.base.filter
    /\ CallAdjustments.dominated = "null"

\* the matched patterns of the call whose statistics hold at least 3
\* observations
Observed ==
    IF \/ adjusted.learningData = Undefined
       \/ adjusted.base.matchedPatterns.kind # "array"
    THEN {}
    ELSE {p \in SeqToSet(adjusted.base.matchedPatterns.items) :
            /\ p \in DOMAIN adjusted.learningData.patternStats
            /\ adjusted.learningData.patternStats[p].hits
                 + adjusted.learningData.patternStats[p].misses >= 3}

\* 0.5 + hits / (hits + misses) of an observed pattern
WeightOf(p) ==
    LET stats == adjusted.learningData.patternStats[p]
    IN  RatAdd(Rat(1, 2), Rat(stats.hits, stats.hits + stats.misses))

\* base confidence + author adjustment + keyword adjustment
SummedConfidence ==
    RatAdd(adjusted.base.confidence,
           Hundredths(CallAdjustments.authorAdjustment + CallAdjustments.keywordAdjustment))

\* the sum multiplied by the mean weight when some pattern is observed
WeightedConfidence ==
    IF Observed = {} THEN SummedConfidence
    ELSE RatMul(SummedConfidence,
                RatMul(RatSum([p \in Observed |-> WeightOf(p)], Observed),
                       Rat(1, Cardinality(Observed))))

-----------------------------------------------------------------------------
(* C36: the override below 0.40 *)

\* the new confidence of the call: the weighted confidence clamped to [0, 1]
NewConfidence == ClampConfidence(WeightedConfidence)

\* the call returns the base result unfiltered, with the new confidence
ReducedByLearning ==
    /\ ~adjusted.result.filter
    /\ adjusted.result.reason = "Confidence reduced by learning"
    /\ SameValue(adjusted.result.confidence, NewConfidence)

\* the call returns the base result still filtered, with the new confidence
StillFiltered ==
    /\ adjusted.result.filter
    /\ adjusted.result.category = adjusted.base.category
    /\ adjusted.result.reason = adjusted.base.reason
    /\ SameValue(adjusted.result.confidence, NewConfidence)

\* C36: when the author is not dominated and the base result has filter =
\* true, the call returns filter = false with reason "Confidence reduced by
\* learning" exactly when the adjusted confidence is below 0.40, and filter =
\* true with the category and reason of the base result at 0.40 or above;
\* the confidence is the computed one and learningApplied is true in both
\* cases
C36_OverrideBelowThreshold ==
    UndominatedCall =>
        /\ adjusted.result.learningApplied
        /\ RatLess(NewConfidence, Hundredths(40)) => ReducedByLearning
        /\ ~RatLess(NewConfidence, Hundredths(40)) => StillFiltered

-----------------------------------------------------------------------------
(* C37: the keyword lists are first-in-first-out by insertion *)

\* The list a call inserts into is first-in-first-out: the call drops the
\* dropped earliest entries of the list, none unless the list is full
\* afterwards, keeps all the others in their places, whether signalled again
\* or not, and puts the top keywords that the list did not hold at its
\* recent end
FirstInFirstOut(listBefore, listAfter, top) ==
    LET new == top \ SeqToSet(listBefore)
        kept == Len(listAfter) - Cardinality(new)
        dropped == Len(listBefore) - kept
    IN  /\ Len(listAfter) <= MaxKeywords
        /\ kept >= 0
        /\ dropped >= 0
        /\ dropped > 0 => Len(listAfter) = MaxKeywords
        /\ SubSeq(listAfter, 1, kept) = SubSeq(listBefore, dropped + 1, Len(listBefore))
        /\ SeqToSet(SubSeq(listAfter, kept + 1, Len(listAfter))) = new

\* the list a call removes the top keywords from keeps the other words, in
\* their order
OthersKept(listBefore, listAfter, top) ==
    listAfter = SelectSeq(listBefore, LAMBDA kw : kw \notin top)

\* C37: each keyword list is first-in-first-out by insertion: when a call
\* pushes a list beyond 200 entries the entries inserted earliest are the
\* ones dropped, the entries that stay keep their order, and a word that is
\* signalled again while in the list keeps its place
C37_FirstInFirstOut ==
    \A c \in DOMAIN calls :
        LearnsKeywords(c) =>
            LET before == calls[c].read.learnedKeywords
                after == calls[c].learningData.learnedKeywords
            IN  /\ calls[c].signal \in KeepSignals =>
                    /\ FirstInFirstOut(before.keep, after.keep, TopKeywords(c))
                    /\ OthersKept(before.filter, after.filter, TopKeywords(c))
                /\ calls[c].signal \in FilterSignals =>
                    /\ FirstInFirstOut(before.filter, after.filter, TopKeywords(c))
                    /\ OthersKept(before.keep, after.keep, TopKeywords(c))

\* the keep list is full and holds words 1 and 2 as its earliest entries;
\* filterRejected on the recurring post signals them again with three new
\* words: words 1 and 2 are dropped with word 3, and the new words are the
\* last three entries
C37_Witness ==
    \E c \in DOMAIN calls :
        /\ LearnsKeywords(c)
        /\ calls[c].signal = "filterRejected"
        /\ Len(calls[c].read.learnedKeywords.keep) = MaxKeywords
        /\ SubSeq(calls[c].read.learnedKeywords.keep, 1, 3) = <<Word(1), Word(2), Word(3)>>
        /\ {Word(1), Word(2)} \subseteq TopKeywords(c)
        /\ Len(calls[c].learningData.learnedKeywords.keep) = MaxKeywords
        /\ calls[c].learningData.learnedKeywords.keep[1] = Word(4)
        /\ SeqToSet(SubSeq(calls[c].learningData.learnedKeywords.keep,
                           MaxKeywords - 2, MaxKeywords))
             = TopKeywords(c) \ {Word(1), Word(2)}

-----------------------------------------------------------------------------
(* C38: batch classification is debounced *)

\* the request that this step sends
SentRequest == tab'.inFlight[Len(tab'.inFlight)]

\* a request goes out only when BATCH_DELAY_MS has passed since new posts
\* were last discovered; it carries the posts that were pending and leaves
\* the queue empty
SentAfterDelay ==
    RequestSent =>
        /\ tab.clock.sinceDiscovery >= BATCH_DELAY_MS
        /\ tab.state.pendingPosts # <<>>
        /\ SentRequest.posts = tab.state.pendingPosts
        /\ tab'.state.pendingPosts = <<>>

\* a discovery of new posts starts the timeout anew: a step that adds to the
\* queue is a discovery, and the pending timeout is always due BATCH_DELAY_MS
\* after the last discovery
TimerRestarted(t) ==
    t.state.batchTimer = "armed" =>
        t.clock.batchTimeout + t.clock.sinceDiscovery = BATCH_DELAY_MS

\* no post has been placed in two requests since the last rescan
RequestedOnce(t) ==
    \A p \in DOMAIN t.history.requests : t.history.requests[p] <= 1

-----------------------------------------------------------------------------
(* C39: the scanning indicator *)

\* C39: state.scanning is true exactly while some classifyPosts request that
\* the script has sent awaits its response, also with two requests in flight
\* and when a request fails
C39_ScanningWhileInFlight ==
    tab.state.scanning <=> Len(tab.inFlight) > 0

-----------------------------------------------------------------------------
(* C40: a rescan clears all classifications *)

\* C40: after a rescan state.classifications holds only results of requests
\* issued after it: the response to a request that was in flight when the
\* rescan happened is not applied, and no post has its result applied twice
C40_RescanClearsAll ==
    /\ tab.history.fromStale = {}
    /\ \A p \in DOMAIN tab.history.applied : tab.history.applied[p] <= 1

====
